---- MODULE Spec2Model ----
(***************************************************************************)
(* Numeric core of the financial calculator: the time-value-of-money       *)
(* formulas (lib/financial), the amortization schedule generators          *)
(* (lib/amortization) and the Newton iteration of calculateIRR.            *)
(*                                                                         *)
(* A JavaScript number is modelled as an exact rational <<s, n, d>>: sign  *)
(* s, numerator n and denominator d > 0 in lowest terms, extended with the  *)
(* IEEE-754 special values +Infinity, -Infinity (d = 0) and NaN (0/0).     *)
(* n and d are naturals of any size, so that 1e10 and 200 halvings fit.    *)
(* Rounding error of binary floating point is not modelled: a value the    *)
(* code computes is the exact value of the same expression.  Zero is       *)
(* unsigned (+0).                                                          *)
(***************************************************************************)
EXTENDS Integers, Sequences, FiniteSets, TLC

\* cmpd: the compound-interest quantities a caller holds and the calls made
\* amrt: one amortization request and the schedule generated for it
\* irr:  one calculateIRR call, iteration by iteration
\* bis:  one bisectionMethod call, iteration by iteration, with the arrays the
\*       caller and the residual function hold
\* cash: one NPV / profitability-index calculation of a cash-flow series
VARIABLES cmpd, amrt, irr, bis, cash

vars == <<cmpd, amrt, irr, bis, cash>>

\* "no result" (null)
Null == <<>>

Timings == {"begin", "end"}

MaxPeriods == 3

MaxCalls == 2

\* ------------------------------------------------------------------------
\* Numbers
\* ------------------------------------------------------------------------

\* Natural numbers of any size: little-endian sequences of base-10000 digits
\* without a leading zero digit; <<>> is 0.  The digit loops are written with
\* quantifiers rather than recursion wherever the digits are independent.
\* An operation that uses another one reaches it through Num, one operator
\* that selects the operation by name.
RECURSIVE Num(_, _, _)

RECURSIVE MNat(_)
MNat(k) == IF k = 0 THEN <<>> ELSE <<k % 10000>> \o MNat(k \div 10000)

MSmall(m) == Len(m) <= 2

MVal(m) ==
    IF Len(m) = 0 THEN 0 ELSE IF Len(m) = 1 THEN m[1] ELSE m[1] + 10000 * m[2]

MDigit(m, i) == IF 1 <= i /\ i <= Len(m) THEN m[i] ELSE 0

SetMax(S) == CHOOSE i \in S : \A j \in S : j <= i

MTrim(m) ==
    LET nz == {i \in 1..Len(m) : m[i] # 0}
    IN  IF nz = {} THEN <<>> ELSE SubSeq(m, 1, SetMax(nz))

\* -1, 0, 1 as a < b, a = b, a > b
MCmp(a, b) ==
    IF Len(a) < Len(b) THEN -1
    ELSE IF Len(a) > Len(b) THEN 1
    ELSE LET diff == {i \in 1..Len(a) : a[i] # b[i]}
         IN  IF diff = {} THEN 0
             ELSE IF a[SetMax(diff)] < b[SetMax(diff)] THEN -1 ELSE 1

\* a + b: the carry into digit i comes from a digit below that overflows,
\* through digits that are all 9999
MAddLong(a, b) ==
    LET n == IF Len(a) > Len(b) THEN Len(a) ELSE Len(b)
        sum(i) == MDigit(a, i) + MDigit(b, i)
        carry(i) == IF \E j \in 1..(i - 1) :
                           /\ sum(j) >= 10000
                           /\ \A l \in (j + 1)..(i - 1) : sum(l) = 9999
                    THEN 1 ELSE 0
    IN  MTrim([i \in 1..(n + 1) |-> (sum(i) + carry(i)) % 10000])

MAdd(a, b) ==
    IF MSmall(a) /\ MSmall(b) THEN MNat(MVal(a) + MVal(b))
    ELSE Num("MAddLong", a, b)

\* a - b for a >= b
MSubLong(a, b) ==
    LET borrow(i) == IF \E j \in 1..(i - 1) :
                            /\ a[j] < MDigit(b, j)
                            /\ \A l \in (j + 1)..(i - 1) : a[l] = MDigit(b, l)
                     THEN 1 ELSE 0
    IN  MTrim([i \in 1..Len(a) |-> (a[i] - MDigit(b, i) - borrow(i) + 10000) % 10000])

MSub(a, b) ==
    IF MSmall(a) THEN MNat(MVal(a) - MVal(b)) ELSE Num("MSubLong", a, b)

\* a * k for one digit k: the low halves of the digit products plus their
\* high halves one place up
MMulDigit(a, k) ==
    IF k = 0 THEN <<>>
    ELSE IF k = 1 THEN a
    ELSE Num("MAddLong", [i \in 1..Len(a) |-> (a[i] * k) % 10000],
                         [i \in 1..(Len(a) + 1) |->
                             IF i = 1 THEN 0 ELSE (a[i - 1] * k) \div 10000])

\* a * 10000^k
MShift(a, k) == IF Len(a) = 0 THEN a ELSE [i \in 1..k |-> 0] \o a

\* a * (digits i..j of b, in place)
RECURSIVE MMulRange(_, _, _, _)
MMulRange(a, b, i, j) ==
    IF i = j THEN MShift(Num("MMulDigit", a, b[i]), i - 1)
    ELSE LET mid == (i + j) \div 2
         IN  Num("MAddLong", MMulRange(a, b, i, mid), MMulRange(a, b, mid + 1, j))

MMul(a, b) ==
    IF Len(a) + Len(b) <= 2 THEN MNat(MVal(a) * MVal(b))
    ELSE IF Len(a) = 0 \/ Len(b) = 0 THEN <<>>
    ELSE IF Len(a) >= Len(b) THEN Num("MMulRange", a, b)
    ELSE Num("MMulRange", b, a)

\* One digit of a long division: <<q, r>> with rem = q * b + r and r < b, for
\* rem < 10000 * b.  Each round takes off an under-estimate of the quotient
\* computed from the leading digits.
RECURSIVE MDivStep(_, _, _)
MDivStep(rem, b, acc) ==
    IF MCmp(rem, b) < 0 THEN <<acc, rem>>
    ELSE LET top == IF Len(rem) > Len(b)
                    THEN rem[Len(rem)] * 10000 + rem[Len(rem) - 1]
                    ELSE rem[Len(rem)]
             est == top \div (b[Len(b)] + 1)
             q   == IF est = 0 THEN 1 ELSE est
         IN  MDivStep(Num("MSubLong", rem, Num("MMulDigit", b, q)), b, acc + q)

\* Long division from the leading digit a[i] down
RECURSIVE MDivModAt(_, _, _, _, _)
MDivModAt(a, b, i, quot, rem) ==
    IF i = 0 THEN <<quot, rem>>
    ELSE LET qr == Num("MDivStep", MTrim(<<a[i]>> \o rem), b)
             qs == MTrim(<<qr[1]>> \o quot)
         IN  IF Len(qs) >= 0 THEN MDivModAt(a, b, i - 1, qs, qr[2]) ELSE <<>>

\* <<a div b, a mod b>> for b # 0; a and b are first scaled so that the
\* leading digit of b is at least 5000, which keeps the estimates close
MDivMod(a, b) ==
    IF MSmall(a) /\ MSmall(b)
    THEN <<MNat(MVal(a) \div MVal(b)), MNat(MVal(a) % MVal(b))>>
    ELSE IF MCmp(a, b) < 0 THEN <<<<>>, a>>
    ELSE LET f  == 10000 \div (b[Len(b)] + 1)
             af == Num("MMulDigit", a, f)
             bf == Num("MMulDigit", b, f)
             q  == Num("MDivModAt", af, bf)[1]
         IN  <<q, Num("MSubLong", a, Num("MMul", q, b))>>

MQuot(a, b) == IF b = <<1>> THEN a ELSE Num("MDivMod", a, b)[1]

RECURSIVE Gcd(_, _)
Gcd(a, b) == IF b = 0 THEN a ELSE Gcd(b, a % b)

\* One step of Euclid's algorithm on the pair x
MGcdStep(x) ==
    IF MSmall(x[1]) /\ MSmall(x[2]) THEN <<MNat(Gcd(MVal(x[1]), MVal(x[2]))), <<>>>>
    ELSE <<x[2], Num("MDivMod", x[1], x[2])[2]>>

\* Up to 2^k steps of Euclid's algorithm, nested so that the evaluation stays
\* shallow
RECURSIVE MGcdSteps(_, _)
MGcdSteps(x, k) ==
    IF Len(x[2]) = 0 THEN x
    ELSE IF k = 0 THEN MGcdStep(x)
    ELSE MGcdSteps(MGcdSteps(x, k - 1), k - 1)

MGcd(a, b) ==
    IF MSmall(a) /\ MSmall(b) THEN MNat(Gcd(MVal(a), MVal(b)))
    ELSE IF a = b THEN a
    ELSE Num("MGcdSteps", <<a, b>>, 10)[1]

\* 10^e
MPow10(e) == [i \in 1..(e \div 4 + 1) |->
                 IF i <= e \div 4 THEN 0
                 ELSE IF e % 4 = 0 THEN 1 ELSE IF e % 4 = 1 THEN 10
                 ELSE IF e % 4 = 2 THEN 100 ELSE 1000]

AbsInt(i) == IF i < 0 THEN -i ELSE i

SignInt(i) == IF i < 0 THEN -1 ELSE IF i > 0 THEN 1 ELSE 0

\* The number s * n / d for a sign s and naturals n, d, in lowest terms; a
\* zero denominator gives the IEEE result of dividing by +0.
RBody(s, n, d) ==
    IF Len(n) = 0 \/ s = 0 THEN <<0, <<>>, IF Len(d) = 0 THEN <<>> ELSE <<1>>>>
    ELSE IF Len(d) = 0 THEN <<s, <<1>>, <<>>>>
    ELSE LET g == Num("MGcd", n, d)
         IN  <<s, Num("MQuot", n, g), Num("MQuot", d, g)>>

R(s, n, d) == Num("R", s, <<n, d>>)

\* The number n/d for machine integers n, d
Q(n, d) == R(SignInt(n) * (IF d < 0 THEN -1 ELSE 1), MNat(AbsInt(n)), MNat(AbsInt(d)))

I(i) == <<SignInt(i), MNat(AbsInt(i)), <<1>>>>

NaN == <<0, <<>>, <<>>>>

IsNaN(x) == x = NaN
IsFinite(x) == Len(x[3]) # 0
IsInf(x) == Len(x[3]) = 0 /\ x[1] # 0

Neg(x) == <<-x[1], x[2], x[3]>>

\* s1 * m1 + s2 * m2 as <<sign, magnitude>>
SignedSum(s1, m1, s2, m2) ==
    IF s1 = s2 THEN <<s1, MAdd(m1, m2)>>
    ELSE IF s1 = 0 THEN <<s2, m2>>
    ELSE IF s2 = 0 THEN <<s1, m1>>
    ELSE LET c == MCmp(m1, m2)
         IN  IF c = 0 THEN <<0, <<>>>>
             ELSE IF c > 0 THEN <<s1, MSub(m1, m2)>>
             ELSE <<s2, MSub(m2, m1)>>

\* a + b; with g the gcd of the denominators, the sum t / (a.d/g * b.d) of
\* two fractions in lowest terms is reduced by gcd(t, g) alone
AddBody(a, b) ==
    IF IsNaN(a) \/ IsNaN(b) THEN NaN
    ELSE IF IsInf(a) THEN (IF IsInf(b) /\ b # a THEN NaN ELSE a)
    ELSE IF IsInf(b) THEN b
    ELSE LET g  == Num("MGcd", a[3], b[3])
             ad == Num("MQuot", a[3], g)
             bd == Num("MQuot", b[3], g)
             t  == Num("SignedSum", <<a[1], Num("MMul", a[2], bd)>>,
                                    <<b[1], Num("MMul", b[2], ad)>>)
             g2 == IF g = <<1>> THEN g ELSE Num("MGcd", t[2], g)
         IN  IF t[1] = 0 THEN <<0, <<>>, <<1>>>>
             ELSE <<t[1], Num("MQuot", t[2], g2),
                          Num("MMul", ad, Num("MQuot", b[3], g2))>>

Add(a, b) == Num("Add", a, b)

Sub(a, b) == Add(a, Neg(b))

\* a * b
MulBody(a, b) ==
    IF IsNaN(a) \/ IsNaN(b) THEN NaN
    ELSE IF IsInf(a) \/ IsInf(b)
         THEN (IF a[1] = 0 \/ b[1] = 0 THEN NaN ELSE <<a[1] * b[1], <<1>>, <<>>>>)
    ELSE IF a[1] = 0 \/ b[1] = 0 THEN I(0)
    ELSE LET g1 == Num("MGcd", a[2], b[3])
             g2 == Num("MGcd", b[2], a[3])
         IN  <<a[1] * b[1],
               Num("MMul", Num("MQuot", a[2], g1), Num("MQuot", b[2], g2)),
               Num("MMul", Num("MQuot", a[3], g2), Num("MQuot", b[3], g1))>>

Mul(a, b) == Num("Mul", a, b)

\* a / b
Div(a, b) ==
    IF IsNaN(a) \/ IsNaN(b) THEN NaN
    ELSE IF IsInf(b) THEN (IF IsInf(a) THEN NaN ELSE I(0))
    ELSE IF b[1] = 0 THEN R(a[1], a[2], <<>>)
    ELSE Mul(a, <<b[1], b[3], b[2]>>)

\* a < b; every comparison with NaN is false
LtBody(a, b) ==
    IF IsNaN(a) \/ IsNaN(b) THEN FALSE
    ELSE IF IsInf(a) \/ IsInf(b)
         THEN (IF IsInf(a) /\ IsInf(b) THEN a[1] < b[1]
               ELSE IF IsInf(a) THEN a[1] < 0
               ELSE b[1] > 0)
    ELSE IF a[1] # b[1] THEN a[1] < b[1]
    ELSE IF a[1] = 0 THEN FALSE
    ELSE LET c == MCmp(Num("MMul", a[2], b[3]), Num("MMul", b[2], a[3]))
         IN  IF a[1] > 0 THEN c < 0 ELSE c > 0

Lt(a, b) == Num("Lt", a, b)

Le(a, b) == ~IsNaN(a) /\ ~IsNaN(b) /\ ~Lt(b, a)

\* Math.min, Math.max: NaN if either argument is NaN
Min(a, b) == IF IsNaN(a) \/ IsNaN(b) THEN NaN ELSE IF Lt(b, a) THEN b ELSE a

Max(a, b) == IF IsNaN(a) \/ IsNaN(b) THEN NaN ELSE IF Lt(a, b) THEN b ELSE a

\* Math.abs
Abs(x) == <<AbsInt(x[1]), x[2], x[3]>>

\* Math.pow(x, k) for an integer exponent k
RECURSIVE Pow(_, _)
Pow(x, k) ==
    IF k = 0 THEN I(1)
    ELSE IF k < 0 THEN Div(I(1), Pow(x, -k))
    ELSE Mul(x, Pow(x, k - 1))

\* Math.abs(x) < 1e-e, i.e. |n| * 10^e < d
BelowTolBody(x, e) ==
    IsFinite(x) /\ MCmp(Num("MMul", x[2], MPow10(e)), x[3]) < 0

BelowTol(x, e) == Num("BelowTol", x, e)

Num(op, x, y) ==
    CASE op = "MAddLong"  -> MAddLong(x, y)
      [] op = "MSubLong"  -> MSubLong(x, y)
      [] op = "MMulDigit" -> MMulDigit(x, y)
      [] op = "MMulRange" -> MMulRange(x, y, 1, Len(y))
      [] op = "MMul"      -> MMul(x, y)
      [] op = "MDivStep"  -> MDivStep(x, y, 0)
      [] op = "MDivModAt" -> MDivModAt(x, y, Len(x) - Len(y) + 1, <<>>,
                                       SubSeq(x, Len(x) - Len(y) + 2, Len(x)))
      [] op = "MDivMod"   -> MDivMod(x, y)
      [] op = "MQuot"     -> MQuot(x, y)
      [] op = "MGcdSteps" -> MGcdSteps(x, y)
      [] op = "MGcd"      -> MGcd(x, y)
      [] op = "SignedSum" -> SignedSum(x[1], x[2], y[1], y[2])
      [] op = "R"         -> RBody(x, y[1], y[2])
      [] op = "Add"       -> AddBody(x, y)
      [] op = "Mul"       -> MulBody(x, y)
      [] op = "Lt"        -> LtBody(x, y)
      [] op = "BelowTol"  -> BelowTolBody(x, y)

\* ------------------------------------------------------------------------
\* TVM engine (lib/financial)
\* ------------------------------------------------------------------------

\* calculateFV with the closed form applied at every rate, r = 0 included
calculateFV_NoZeroRateBranch(pv, rate, periods, pmt, paymentTiming) ==
    LET r == Div(rate, I(100))
        n == periods
    IN  LET pvFactor == Pow(Add(I(1), r), n)
            pmtFactor == Mul(Div(Sub(Pow(Add(I(1), r), n), I(1)), r),
                             IF paymentTiming = "begin" THEN Add(I(1), r) ELSE I(1))
        IN  Add(Mul(pv, pvFactor), Mul(pmt, pmtFactor))

calculateFV(pv, rate, periods, pmt, paymentTiming) ==
    LET r == Div(rate, I(100))
        n == periods
    IN  IF r = I(0) THEN Add(pv, Mul(pmt, I(n)))
        ELSE LET pvFactor == Pow(Add(I(1), r), n)
                 pmtFactor == Mul(Div(Sub(Pow(Add(I(1), r), n), I(1)), r),
                                  IF paymentTiming = "begin" THEN Add(I(1), r) ELSE I(1))
             IN  Add(Mul(pv, pvFactor), Mul(pmt, pmtFactor))

\* one period of calculateFVVariable adding the payment after the growth whatever the timing
FVVariableBody_AlwaysEnd(fv, rate, pmt, paymentTiming) ==
    LET r == Div(rate, I(100))
    IN  Add(Mul(fv, Add(I(1), r)), pmt)

\* one pass of calculateFVVariable's loop: the balance after a period at rate
FVVariableBody(fv, rate, pmt, paymentTiming) ==
    LET r == Div(rate, I(100))
    IN  IF paymentTiming = "begin"
        THEN Mul(Add(fv, pmt), Add(I(1), r))
        ELSE Add(Mul(fv, Add(I(1), r)), pmt)

\* the loop from index i on, fv being the balance so far
RECURSIVE FVVariableLoop(_, _, _, _, _)
FVVariableLoop(fv, variableRates, i, pmt, paymentTiming) ==
    IF i > Len(variableRates) THEN fv
    ELSE FVVariableLoop(FVVariableBody(fv, variableRates[i], pmt, paymentTiming),
                        variableRates, i + 1, pmt, paymentTiming)

calculateFVVariable(pv, variableRates, pmt, paymentTiming) ==
    FVVariableLoop(pv, variableRates, 1, pmt, paymentTiming)

\* calculatePV discounting the payments as an ordinary annuity whatever the timing
calculatePV_IgnoresTiming(fv, rate, periods, pmt, paymentTiming) ==
    LET r == Div(rate, I(100))
        n == periods
    IN  IF r = I(0) THEN Sub(fv, Mul(pmt, I(n)))
        ELSE LET fvFactor == Pow(Add(I(1), r), -n)
                 pmtFactor == Div(Sub(I(1), Pow(Add(I(1), r), -n)), r)
             IN  Sub(Mul(fv, fvFactor), Mul(pmt, pmtFactor))

calculatePV(fv, rate, periods, pmt, paymentTiming) ==
    LET r == Div(rate, I(100))
        n == periods
    IN  IF r = I(0) THEN Sub(fv, Mul(pmt, I(n)))
        ELSE LET fvFactor == Pow(Add(I(1), r), -n)
                 pmtFactor == Mul(Div(Sub(I(1), Pow(Add(I(1), r), -n)), r),
                                  IF paymentTiming = "begin" THEN Add(I(1), r) ELSE I(1))
             IN  Sub(Mul(fv, fvFactor), Mul(pmt, pmtFactor))

\* calculatePMT dividing by the annuity factor at every rate, r = 0 included
calculatePMT_NoZeroRateBranch(pv, fv, rate, periods, paymentTiming) ==
    LET r == Div(rate, I(100))
        n == periods
    IN  LET pvFactor == Pow(Add(I(1), r), n)
            pmtFactor == Mul(Div(Sub(Pow(Add(I(1), r), n), I(1)), r),
                             IF paymentTiming = "begin" THEN Add(I(1), r) ELSE I(1))
        IN  Div(Neg(Sub(fv, Mul(pv, pvFactor))), pmtFactor)

calculatePMT(pv, fv, rate, periods, paymentTiming) ==
    LET r == Div(rate, I(100))
        n == periods
    IN  IF r = I(0) THEN Div(Neg(Sub(fv, pv)), I(n))
        ELSE LET pvFactor == Pow(Add(I(1), r), n)
                 pmtFactor == Mul(Div(Sub(Pow(Add(I(1), r), n), I(1)), r),
                                  IF paymentTiming = "begin" THEN Add(I(1), r) ELSE I(1))
             IN  Div(Neg(Sub(fv, Mul(pv, pvFactor))), pmtFactor)

\* cashFlows is a sequence; index i of the code is position i + 1
RECURSIVE NPVSum(_, _, _)
NPVSum(cashFlows, base, i) ==
    IF i = 0 THEN I(0)
    ELSE Add(NPVSum(cashFlows, base, i - 1), Div(cashFlows[i], Pow(base, i - 1)))

calculateNPV(cashFlows, discountRate) ==
    LET r == Div(discountRate, I(100))
    IN  NPVSum(cashFlows, Add(I(1), r), Len(cashFlows))

\* discountFactor of calculateNPVVariable for period i: the product of
\* (1 + variableDiscountRates[j] / 100) for j = 0..i-1 (positions 1..i)
RECURSIVE DiscountFactor(_, _)
DiscountFactor(variableDiscountRates, i) ==
    IF i = 0 THEN I(1)
    ELSE Mul(DiscountFactor(variableDiscountRates, i - 1),
             Add(I(1), Div(variableDiscountRates[i], I(100))))

\* npv of calculateNPVVariable after the loop has run up to position len
RECURSIVE NPVVariableSum(_, _, _)
NPVVariableSum(cashFlows, variableDiscountRates, len) ==
    IF len = 1 THEN cashFlows[1]
    ELSE Add(NPVVariableSum(cashFlows, variableDiscountRates, len - 1),
             Div(cashFlows[len], DiscountFactor(variableDiscountRates, len - 1)))

calculateNPVVariable(cashFlows, variableDiscountRates) ==
    NPVVariableSum(cashFlows, variableDiscountRates, Len(cashFlows))

\* presentValueOfFutureCashFlows of calculatePI after the loop has run up to
\* position len (index len - 1)
RECURSIVE PIFutureSum(_, _, _)
PIFutureSum(cashFlows, base, len) ==
    IF len <= 1 THEN I(0)
    ELSE Add(PIFutureSum(cashFlows, base, len - 1),
             Div(cashFlows[len], Pow(base, len - 1)))

\* calculatePI dividing by the signed initial cash flow
calculatePI_SignedInvestment(cashFlows, discountRate) ==
    LET initialInvestment == cashFlows[1]
        r == Div(discountRate, I(100))
    IN  IF initialInvestment = I(0) THEN Null
        ELSE Div(PIFutureSum(cashFlows, Add(I(1), r), Len(cashFlows)), initialInvestment)

calculatePI(cashFlows, discountRate) ==
    LET initialInvestment == Abs(cashFlows[1])
        r == Div(discountRate, I(100))
    IN  IF initialInvestment = I(0) THEN Null
        ELSE Div(PIFutureSum(cashFlows, Add(I(1), r), Len(cashFlows)), initialInvestment)

maxIterations == 100

\* tolerance = 1e-6, as the exponent of BelowTol
tolerance == 6

\* npv of one Newton iteration of calculateIRR at rate (a fraction, not a percentage)
RECURSIVE IRRNpv(_, _, _)
IRRNpv(cashFlows, rate, len) ==
    IF len = 0 THEN I(0)
    ELSE Add(IRRNpv(cashFlows, rate, len - 1),
             Div(cashFlows[len], Pow(Add(I(1), rate), len - 1)))

\* dnpv of one Newton iteration: position len of the sequence is index t = len - 1
RECURSIVE IRRDnpv(_, _, _)
IRRDnpv(cashFlows, rate, len) ==
    IF len = 0 THEN I(0)
    ELSE Sub(IRRDnpv(cashFlows, rate, len - 1),
             Div(Mul(I(len - 1), cashFlows[len]), Pow(Add(I(1), rate), len)))

\* the converged rate returned as it is, not converted to a percentage
IRRPercentage_NotConverted(rate) == rate

\* the value calculateIRR returns for a converged rate
IRRPercentage(rate) == Mul(rate, I(100))

\* the loop body returning 0 instead of Null when the derivative is too small
IRRIteration_StallReturnsZero(cashFlows, rate) ==
    LET npv == IRRNpv(cashFlows, rate, Len(cashFlows))
        dnpv == IRRDnpv(cashFlows, rate, Len(cashFlows))
        newRate == Sub(rate, Div(npv, dnpv))
    IN  IF BelowTol(npv, tolerance)
        THEN [return |-> TRUE, result |-> IRRPercentage(rate), rate |-> rate]
        ELSE IF BelowTol(dnpv, 10)
        THEN [return |-> TRUE, result |-> I(0), rate |-> rate]
        ELSE IF Lt(newRate, I(-1))
        THEN [return |-> TRUE, result |-> Null, rate |-> newRate]
        ELSE [return |-> FALSE, result |-> Null, rate |-> newRate]

\* the loop body testing the derivative before the convergence of npv
IRRIteration_DerivativeFirst(cashFlows, rate) ==
    LET npv == IRRNpv(cashFlows, rate, Len(cashFlows))
        dnpv == IRRDnpv(cashFlows, rate, Len(cashFlows))
        newRate == Sub(rate, Div(npv, dnpv))
    IN  IF BelowTol(dnpv, 10)
        THEN [return |-> TRUE, result |-> Null, rate |-> rate]
        ELSE IF BelowTol(npv, tolerance)
        THEN [return |-> TRUE, result |-> IRRPercentage(rate), rate |-> rate]
        ELSE IF Lt(newRate, I(-1))
        THEN [return |-> TRUE, result |-> Null, rate |-> newRate]
        ELSE [return |-> FALSE, result |-> Null, rate |-> newRate]

\* the body of the loop of calculateIRR at the iterate rate: either the call
\* returns (a percentage or Null) or the loop goes on with the next iterate
IRRIteration(cashFlows, rate) ==
    LET npv == IRRNpv(cashFlows, rate, Len(cashFlows))
        dnpv == IRRDnpv(cashFlows, rate, Len(cashFlows))
        newRate == Sub(rate, Div(npv, dnpv))
    IN  IF BelowTol(npv, tolerance)
        THEN [return |-> TRUE, result |-> IRRPercentage(rate), rate |-> rate]
        ELSE IF BelowTol(dnpv, 10)
        THEN [return |-> TRUE, result |-> Null, rate |-> rate]
        ELSE IF Lt(newRate, I(-1))
        THEN [return |-> TRUE, result |-> Null, rate |-> newRate]
        ELSE [return |-> FALSE, result |-> Null, rate |-> newRate]

\* ------------------------------------------------------------------------
\* Amortization engine (lib/amortization)
\* ------------------------------------------------------------------------

AMRTRow(period, principalPayment, interestPayment, totalPayment, remainingBalance) ==
    [period |-> period, principalPayment |-> principalPayment,
     interestPayment |-> interestPayment, totalPayment |-> totalPayment,
     remainingBalance |-> remainingBalance]

\* the shpitzer loop body charging interest on the balance after the principal
\* payment whatever the timing
ShpitzerBody_InterestAfterPayment(principalPayment, r, paymentTiming, period, remainingBalance) ==
    LET actualPrincipalPayment == Min(principalPayment, remainingBalance)
        balanceAfterPrincipal == Sub(remainingBalance, actualPrincipalPayment)
        interestPayment == Mul(balanceAfterPrincipal, r)
        totalPayment == Add(actualPrincipalPayment, interestPayment)
        newBalance == Sub(remainingBalance, actualPrincipalPayment)
    IN  [row |-> AMRTRow(period, actualPrincipalPayment, interestPayment, totalPayment,
                         Max(I(0), newBalance)),
         remainingBalance |-> newBalance]

\* one iteration of the shpitzer loop: the row pushed and the balance carried on
ShpitzerBody(principalPayment, r, paymentTiming, period, remainingBalance) ==
    LET actualPrincipalPayment == Min(principalPayment, remainingBalance)
        balanceAfterPrincipal == Sub(remainingBalance, actualPrincipalPayment)
        interestPayment == IF paymentTiming = "begin"
                           THEN Mul(balanceAfterPrincipal, r)
                           ELSE Mul(remainingBalance, r)
        totalPayment == Add(actualPrincipalPayment, interestPayment)
        newBalance == Sub(remainingBalance, actualPrincipalPayment)
    IN  [row |-> AMRTRow(period, actualPrincipalPayment, interestPayment, totalPayment,
                         Max(I(0), newBalance)),
         remainingBalance |-> newBalance]

RECURSIVE ShpitzerLoop(_, _, _, _, _, _, _)
ShpitzerLoop(principalPayment, r, periods, paymentTiming, period, remainingBalance, schedule) ==
    IF period > periods THEN schedule
    ELSE LET b == ShpitzerBody(principalPayment, r, paymentTiming, period, remainingBalance)
         IN  ShpitzerLoop(principalPayment, r, periods, paymentTiming, period + 1,
                          b.remainingBalance, Append(schedule, b.row))

\* the shpitzer generator slicing the principal into periods + 1 parts
generateShpitzerSchedule_SliceOffByOne(principal, rate, periods, paymentTiming) ==
    LET principalPayment == Div(principal, I(periods + 1))
        r == Div(rate, I(100))
    IN  ShpitzerLoop(principalPayment, r, periods, paymentTiming, 1, principal, <<>>)

generateShpitzerSchedule(principal, rate, periods, paymentTiming) ==
    LET principalPayment == Div(principal, I(periods))
        r == Div(rate, I(100))
    IN  ShpitzerLoop(principalPayment, r, periods, paymentTiming, 1, principal, <<>>)

\* the fixed payment amount of the regular schedule
RegularPmt(principal, r, periods, paymentTiming) ==
    IF r = I(0) THEN Div(principal, I(periods))
    ELSE IF paymentTiming = "begin"
         THEN Div(Mul(principal, r),
                  Mul(Sub(I(1), Pow(Add(I(1), r), -periods)), Add(I(1), r)))
         ELSE Div(Mul(principal, r), Sub(I(1), Pow(Add(I(1), r), -periods)))

\* the regular loop body reporting the fixed payment as the total of every row
RegularBody_TotalIsPmt(pmt, r, paymentTiming, period, remainingBalance) ==
    LET principalPayment ==
            IF paymentTiming = "begin"
            THEN Min(Div(pmt, Add(I(1), r)), remainingBalance)
            ELSE Min(Sub(pmt, Mul(remainingBalance, r)), remainingBalance)
        interestPayment ==
            IF paymentTiming = "begin"
            THEN Mul(Sub(remainingBalance, principalPayment), r)
            ELSE Mul(remainingBalance, r)
        newBalance == Sub(remainingBalance, principalPayment)
    IN  [row |-> AMRTRow(period, principalPayment, interestPayment, pmt,
                         Max(I(0), newBalance)),
         remainingBalance |-> newBalance]

\* one iteration of the regular loop
RegularBody(pmt, r, paymentTiming, period, remainingBalance) ==
    LET principalPayment ==
            IF paymentTiming = "begin"
            THEN Min(Div(pmt, Add(I(1), r)), remainingBalance)
            ELSE Min(Sub(pmt, Mul(remainingBalance, r)), remainingBalance)
        interestPayment ==
            IF paymentTiming = "begin"
            THEN Mul(Sub(remainingBalance, principalPayment), r)
            ELSE Mul(remainingBalance, r)
        totalPayment == Add(principalPayment, interestPayment)
        newBalance == Sub(remainingBalance, principalPayment)
    IN  [row |-> AMRTRow(period, principalPayment, interestPayment, totalPayment,
                         Max(I(0), newBalance)),
         remainingBalance |-> newBalance]

RECURSIVE RegularLoop(_, _, _, _, _, _, _)
RegularLoop(pmt, r, periods, paymentTiming, period, remainingBalance, schedule) ==
    IF period > periods THEN schedule
    ELSE LET b == RegularBody(pmt, r, paymentTiming, period, remainingBalance)
         IN  RegularLoop(pmt, r, periods, paymentTiming, period + 1,
                         b.remainingBalance, Append(schedule, b.row))

\* the regular generator numbering the periods from 0
generateRegularSchedule_ZeroBased(principal, rate, periods, paymentTiming) ==
    LET r == Div(rate, I(100))
        pmt == RegularPmt(principal, r, periods, paymentTiming)
    IN  RegularLoop(pmt, r, periods, paymentTiming, 0, principal, <<>>)

generateRegularSchedule(principal, rate, periods, paymentTiming) ==
    LET r == Div(rate, I(100))
        pmt == RegularPmt(principal, r, periods, paymentTiming)
    IN  RegularLoop(pmt, r, periods, paymentTiming, 1, principal, <<>>)

\* the balloon row charging the final interest for timing 'begin' as well
BalloonRow_FinalInterestAlways(principal, r, periods, paymentTiming, period) ==
    LET interestPayment == Mul(principal, r)
        principalPayment == IF period < periods THEN I(0) ELSE principal
        remainingBalance == IF period < periods THEN principal ELSE I(0)
        totalPayment == Add(principalPayment, interestPayment)
    IN  AMRTRow(period, principalPayment, interestPayment, totalPayment, remainingBalance)

\* the balloon row taking the final period for an interest-only one (period <= periods)
BalloonRow_NoFinalRepayment(principal, r, periods, paymentTiming, period) ==
    LET interestPayment ==
            IF period <= periods THEN Mul(principal, r)
            ELSE IF paymentTiming = "begin" THEN I(0) ELSE Mul(principal, r)
        principalPayment == IF period <= periods THEN I(0) ELSE principal
        remainingBalance == IF period <= periods THEN principal ELSE I(0)
        totalPayment == Add(principalPayment, interestPayment)
    IN  AMRTRow(period, principalPayment, interestPayment, totalPayment, remainingBalance)

\* the row the balloon loop pushes for one period
BalloonRow(principal, r, periods, paymentTiming, period) ==
    LET interestPayment ==
            IF period < periods THEN Mul(principal, r)
            ELSE IF paymentTiming = "begin" THEN I(0) ELSE Mul(principal, r)
        principalPayment == IF period < periods THEN I(0) ELSE principal
        remainingBalance == IF period < periods THEN principal ELSE I(0)
        totalPayment == Add(principalPayment, interestPayment)
    IN  AMRTRow(period, principalPayment, interestPayment, totalPayment, remainingBalance)

generateBalloonSchedule(principal, rate, periods, paymentTiming) ==
    LET r == Div(rate, I(100))
    IN  [period \in 1..periods |-> BalloonRow(principal, r, periods, paymentTiming, period)]

\* the grace row adding the interest of an interest-only period to the balance
GraceRow_InterestCapitalised(principal, r, periods, period) ==
    LET interestPayment == Mul(principal, r)
        principalPayment == IF period < periods THEN I(0) ELSE principal
        remainingBalance == IF period < periods THEN Add(principal, interestPayment)
                            ELSE I(0)
        totalPayment == Add(principalPayment, interestPayment)
    IN  AMRTRow(period, principalPayment, interestPayment, totalPayment, remainingBalance)

\* the row the grace loop pushes for one period
GraceRow(principal, r, periods, period) ==
    LET interestPayment == Mul(principal, r)
        principalPayment == IF period < periods THEN I(0) ELSE principal
        remainingBalance == IF period < periods THEN principal ELSE I(0)
        totalPayment == Add(principalPayment, interestPayment)
    IN  AMRTRow(period, principalPayment, interestPayment, totalPayment, remainingBalance)

\* the grace generator repaying the principal in equal parts once gracePeriods
\* interest-only periods have passed
generateGraceSchedule_HonoursGracePeriods(principal, rate, periods, gracePeriods, paymentTiming) ==
    LET r == Div(rate, I(100))
        grace == IF gracePeriods < periods THEN gracePeriods ELSE periods - 1
        part == Div(principal, I(periods - grace))
    IN  [period \in 1..periods |->
            IF period <= grace
            THEN AMRTRow(period, I(0), Mul(principal, r), Mul(principal, r), principal)
            ELSE AMRTRow(period, part, Mul(principal, r), Add(part, Mul(principal, r)),
                         Sub(principal, Mul(part, I(period - grace))))]

\* the grace generator waiving the final interest for 'begin' as the balloon generator does
generateGraceSchedule_FollowsBalloonTiming(principal, rate, periods, gracePeriods, paymentTiming) ==
    generateBalloonSchedule(principal, rate, periods, paymentTiming)

generateGraceSchedule(principal, rate, periods, gracePeriods, paymentTiming) ==
    LET r == Div(rate, I(100))
    IN  [period \in 1..periods |-> GraceRow(principal, r, periods, period)]

\* gracePeriods = 0 stands for an absent (or zero) argument: gracePeriods || periods
generateSchedule(principal, rate, periods, scheduleType, paymentTiming, gracePeriods) ==
    CASE scheduleType = "shpitzer" ->
           generateShpitzerSchedule(principal, rate, periods, paymentTiming)
      [] scheduleType = "regular" ->
           generateRegularSchedule(principal, rate, periods, paymentTiming)
      [] scheduleType = "balloon" ->
           generateBalloonSchedule(principal, rate, periods, paymentTiming)
      [] scheduleType = "grace" ->
           generateGraceSchedule(principal, rate, periods,
                                 IF gracePeriods = 0 THEN periods ELSE gracePeriods,
                                 paymentTiming)
      [] OTHER -> <<>>

\* ------------------------------------------------------------------------
\* Callers of the TVM engine: each call solves for one quantity from the
\* other held quantities (CMPDCalculator's switch on solveFor)
\* ------------------------------------------------------------------------

Amounts == {I(-100), I(0), I(250)}

Payments == {I(-10), I(0), I(25)}

Rates == {I(-100), I(-50), I(0), I(50), I(100)}

CmpdIdle == [regs |-> <<>>, history |-> <<>>]

AmrtIdle == [pc |-> "idle"]

IrrIdle == [pc |-> "idle"]

BisIdle == [pc |-> "idle"]

CashIdle == [pc |-> "idle"]

\* the documented example: 1000 at 5% for 10 periods, no payments, end of period
Scenario1000 ==
    [pv |-> I(1000), fv |-> I(0), rate |-> I(5), periods |-> 10, pmt |-> I(0),
     paymentTiming |-> "end"]

InitCMPD ==
    /\ \/ \E pv \in Amounts, fv \in Amounts, rate \in Rates, periods \in 0..MaxPeriods,
             pmt \in Payments, paymentTiming \in Timings :
             cmpd = [regs |-> [pv |-> pv, fv |-> fv, rate |-> rate, periods |-> periods,
                               pmt |-> pmt, paymentTiming |-> paymentTiming],
                     history |-> <<>>]
       \/ cmpd = [regs |-> Scenario1000, history |-> <<>>]
    /\ amrt = AmrtIdle
    /\ irr = IrrIdle
    /\ bis = BisIdle
    /\ cash = CashIdle

\* one call: the quantity solveFor is replaced by value, the call is recorded
Solved(solveFor, value) ==
    /\ Len(cmpd.history) < MaxCalls
    /\ cmpd' = [regs |-> [cmpd.regs EXCEPT ![solveFor] = value],
                history |-> Append(cmpd.history, [solveFor |-> solveFor, inputs |-> cmpd.regs])]
    /\ UNCHANGED <<amrt, irr, bis, cash>>

solveCMPDFV ==
    Solved("fv", calculateFV(cmpd.regs.pv, cmpd.regs.rate, cmpd.regs.periods,
                             cmpd.regs.pmt, cmpd.regs.paymentTiming))

solveCMPDPV ==
    Solved("pv", calculatePV(cmpd.regs.fv, cmpd.regs.rate, cmpd.regs.periods,
                             cmpd.regs.pmt, cmpd.regs.paymentTiming))

solvePMT ==
    Solved("pmt", calculatePMT(cmpd.regs.pv, cmpd.regs.fv, cmpd.regs.rate,
                               cmpd.regs.periods, cmpd.regs.paymentTiming))

NextCMPD == solveCMPDFV \/ solveCMPDPV \/ solvePMT

SpecCMPD == InitCMPD /\ [][NextCMPD]_vars

\* the lists of at most MaxPeriods rates
RECURSIVE RateLists(_)
RateLists(n) ==
    IF n = 0 THEN {<<>>}
    ELSE RateLists(n - 1) \cup {Append(l, rate) : l \in {x \in RateLists(n - 1) : Len(x) = n - 1},
                                                   rate \in Rates}

InitCMPDVariable ==
    /\ \E pv \in Amounts, variableRates \in RateLists(MaxPeriods), pmt \in Payments,
          paymentTiming \in Timings :
          cmpd = [pc |-> "input", pv |-> pv, variableRates |-> variableRates, pmt |-> pmt,
                  paymentTiming |-> paymentTiming, fv |-> Null]
    /\ amrt = AmrtIdle
    /\ irr = IrrIdle
    /\ bis = BisIdle
    /\ cash = CashIdle

solveCMPDFVVariable ==
    /\ cmpd.pc = "input"
    /\ cmpd' = [cmpd EXCEPT !.pc = "solved",
                            !.fv = calculateFVVariable(cmpd.pv, cmpd.variableRates, cmpd.pmt,
                                                       cmpd.paymentTiming)]
    /\ UNCHANGED <<amrt, irr, bis, cash>>

NextCMPDVariable == solveCMPDFVVariable

SpecCMPDVariable == InitCMPDVariable /\ [][NextCMPDVariable]_vars

\* the held quantities after call i of the history
RegsAfter(i) == IF i < Len(cmpd.history) THEN cmpd.history[i + 1].inputs ELSE cmpd.regs

\* calls i and i + 1 were solveFor a and then solveFor b
Consecutive(i, a, b) ==
    /\ i + 1 <= Len(cmpd.history)
    /\ cmpd.history[i].solveFor = a
    /\ cmpd.history[i + 1].solveFor = b

\* ------------------------------------------------------------------------
\* Callers of the amortization engine (AMRTCalculator's generate handler)
\* ------------------------------------------------------------------------

ScheduleTypes == {"shpitzer", "regular", "balloon", "grace"}

Principals == {I(-100), I(0), I(100), I(1200)}

LoanRates == {I(-50), I(0), I(50), I(100)}

Loan(principal, rate, periods, scheduleType, paymentTiming, gracePeriods) ==
    [principal |-> principal, rate |-> rate, periods |-> periods,
     scheduleType |-> scheduleType, paymentTiming |-> paymentTiming,
     gracePeriods |-> gracePeriods]

\* the requests: a grid of small loans and the 12-period loan of the documented scenario
Loans ==
    { Loan(principal, rate, periods, scheduleType, paymentTiming, gracePeriods) :
        principal \in Principals, rate \in LoanRates, periods \in 0..MaxPeriods,
        scheduleType \in ScheduleTypes, paymentTiming \in Timings,
        gracePeriods \in 0..MaxPeriods }
    \cup { Loan(I(1200), I(12), 12, "shpitzer", paymentTiming, 0) : paymentTiming \in Timings }

InitAMRT ==
    /\ \E loan \in Loans :
          /\ loan.scheduleType # "grace" => loan.gracePeriods = 0
          /\ amrt = [pc |-> "request", loan |-> loan, schedule |-> <<>>]
    /\ cmpd = CmpdIdle
    /\ irr = IrrIdle
    /\ bis = BisIdle
    /\ cash = CashIdle

Generate ==
    /\ amrt.pc = "request"
    /\ amrt' = [amrt EXCEPT
                  !.pc = "generated",
                  !.schedule = generateSchedule(amrt.loan.principal, amrt.loan.rate,
                                                amrt.loan.periods, amrt.loan.scheduleType,
                                                amrt.loan.paymentTiming, amrt.loan.gracePeriods)]
    /\ UNCHANGED <<cmpd, irr, bis, cash>>

NextAMRT == Generate

SpecAMRT == InitAMRT /\ [][NextAMRT]_vars

\* sum of field f over the rows of a schedule
RECURSIVE SumField(_, _)
SumField(schedule, f) ==
    IF Len(schedule) = 0 THEN I(0)
    ELSE Add(SumField(SubSeq(schedule, 1, Len(schedule) - 1), f), schedule[Len(schedule)][f])

\* a validated request (AMRTCalculator rejects principal <= 0, rate < 0, periods <= 0)
Validated ==
    /\ Lt(I(0), amrt.loan.principal)
    /\ Le(I(0), amrt.loan.rate)
    /\ amrt.loan.periods >= 1

Generated(scheduleType) == amrt.pc = "generated" /\ amrt.loan.scheduleType = scheduleType

\* one pass of calculateSummary's loop: a row inside the range adds its three fields
SummaryBody_ExclusiveEnd(row, fromPeriod, toPeriod, acc) ==
    IF row.period >= fromPeriod /\ row.period < toPeriod
    THEN [totalPrincipal |-> Add(acc.totalPrincipal, row.principalPayment),
          totalInterest |-> Add(acc.totalInterest, row.interestPayment),
          totalPayment |-> Add(acc.totalPayment, row.totalPayment)]
    ELSE acc

SummaryBody(row, fromPeriod, toPeriod, acc) ==
    IF row.period >= fromPeriod /\ row.period <= toPeriod
    THEN [totalPrincipal |-> Add(acc.totalPrincipal, row.principalPayment),
          totalInterest |-> Add(acc.totalInterest, row.interestPayment),
          totalPayment |-> Add(acc.totalPayment, row.totalPayment)]
    ELSE acc

\* the totals after the first k rows
RECURSIVE SummaryLoop(_, _, _, _)
SummaryLoop(schedule, fromPeriod, toPeriod, k) ==
    IF k = 0
    THEN [totalPrincipal |-> I(0), totalInterest |-> I(0), totalPayment |-> I(0)]
    ELSE SummaryBody(schedule[k], fromPeriod, toPeriod,
                     SummaryLoop(schedule, fromPeriod, toPeriod, k - 1))

calculateSummary(schedule, fromPeriod, toPeriod) ==
    SummaryLoop(schedule, fromPeriod, toPeriod, Len(schedule))

\* the period numbers a summary is asked for, one below and one above the rows included
SummaryPeriods == 0..(MaxPeriods + 1)

\* a call of calculateSummary on the generated schedule; the rows are only read
Summarise ==
    /\ amrt.pc = "generated"
    /\ \E fromPeriod \in SummaryPeriods, toPeriod \in SummaryPeriods :
          amrt' = [pc |-> "summarised", loan |-> amrt.loan, schedule |-> amrt.schedule,
                   fromPeriod |-> fromPeriod, toPeriod |-> toPeriod,
                   summary |-> calculateSummary(amrt.schedule, fromPeriod, toPeriod)]
    /\ UNCHANGED <<cmpd, irr, bis, cash>>

NextSummary == Generate \/ Summarise

SpecSummary == InitAMRT /\ [][NextSummary]_vars

\* ------------------------------------------------------------------------
\* A call of calculateIRR (CASHCalculator), one loop iteration per step
\* ------------------------------------------------------------------------

IRRCalls(cashFlows, guesses) == {[cashFlows |-> cashFlows, guess |-> g] : g \in guesses}

DefaultGuess == Q(1, 10)

\* cash-flow series with the initial guesses they are tried with
IRRInputs ==
    IRRCalls(<<>>, {DefaultGuess, I(0), I(-2)})
    \cup IRRCalls(<<I(0), I(0)>>, {DefaultGuess, I(1), I(-1)})
    \cup IRRCalls(<<I(5)>>, {DefaultGuess, I(0), I(-1)})
    \cup IRRCalls(<<I(-1), I(1)>>, {DefaultGuess, I(0), I(1), I(2), Q(1, 2000000)})
    \cup IRRCalls(<<I(-2), I(1)>>, {DefaultGuess, I(0), I(1), Q(-1, 2)})
    \cup IRRCalls(<<I(1), I(0), I(-1)>>, {I(0), I(1), I(2), I(-2)})
    \cup IRRCalls(<<I(2), I(-5), I(2)>>, {I(0), I(1), Q(-1, 2), I(-2)})
    \cup IRRCalls(<<I(19), I(-44), I(21)>>, {I(0), I(2), I(-2)})
    \cup IRRCalls(<<I(20), I(-51), I(22)>>, {DefaultGuess, I(1)})
    \cup IRRCalls(<<I(100), I(-175), I(66)>>, {DefaultGuess, I(2)})
    \cup IRRCalls(<<I(-100), I(110)>>, {DefaultGuess, I(2)})
    \cup IRRCalls(<<I(-100), I(0), I(121)>>, {DefaultGuess, I(1), I(2)})

InitIRR ==
    /\ \E c \in IRRInputs :
          irr = [pc |-> "loop", cashFlows |-> c.cashFlows, guess |-> c.guess,
                 rate |-> c.guess, i |-> 0, result |-> Null]
    /\ cmpd = CmpdIdle
    /\ amrt = AmrtIdle
    /\ bis = BisIdle
    /\ cash = CashIdle

\* an iteration that ends the call
IRRReturn ==
    /\ irr.pc = "loop"
    /\ irr.i < maxIterations
    /\ LET it == IRRIteration(irr.cashFlows, irr.rate)
       IN  /\ it.return
           /\ irr' = [irr EXCEPT !.pc = "done", !.result = it.result, !.rate = it.rate]
    /\ UNCHANGED <<cmpd, amrt, bis, cash>>

\* an iteration that moves to the next iterate
IRRContinue ==
    /\ irr.pc = "loop"
    /\ irr.i < maxIterations
    /\ LET it == IRRIteration(irr.cashFlows, irr.rate)
       IN  /\ ~it.return
           /\ irr' = [irr EXCEPT !.rate = it.rate, !.i = irr.i + 1]
    /\ UNCHANGED <<cmpd, amrt, bis, cash>>

\* the loop ran maxIterations times without returning
IRRFailedToConverge ==
    /\ irr.pc = "loop"
    /\ irr.i >= maxIterations
    /\ irr' = [irr EXCEPT !.pc = "done", !.result = Null]
    /\ UNCHANGED <<cmpd, amrt, bis, cash>>

NextIRR == IRRReturn \/ IRRContinue \/ IRRFailedToConverge

SpecIRR == InitIRR /\ [][NextIRR]_vars

\* ------------------------------------------------------------------------
\* Solver (lib/solver): a call of bisectionMethod, one loop iteration per
\* step.  The residual function of a call is described by who built it:
\*   "caller"           c0 + c1 * x + c2 * x^2, a function the caller passes
\*   "solveCMPDRate"    calculateFV(pv, x, periods, pmt, paymentTiming) - fv
\*   "solveDCFCashFlow" the NPV of a copy of cashFlows with x at solverPeriod,
\*                      minus targetNPV
\* ------------------------------------------------------------------------

NoArrays == [cashFlows |-> <<>>, modifiedCashFlows |-> <<>>]

\* the residual of solveDCFCashFlow adding x to the value at solverPeriod
DCFResidual_AddsToOriginal(func, arrays, x) ==
    LET modifiedCashFlows ==
            [arrays.cashFlows EXCEPT ![func.solverPeriod + 1] = Add(@, x)]
        npv == IF func.discountRateType = "variable"
               THEN calculateNPVVariable(modifiedCashFlows, func.variableDiscountRates)
               ELSE calculateNPV(modifiedCashFlows, func.discountRate)
    IN  [value  |-> Sub(npv, func.targetNPV),
         arrays |-> [arrays EXCEPT !.modifiedCashFlows = modifiedCashFlows]]

\* the residual of solveDCFCashFlow writing x into the caller's array
DCFResidual_NoCopy(func, arrays, x) ==
    LET modifiedCashFlows == [arrays.cashFlows EXCEPT ![func.solverPeriod + 1] = x]
        npv == IF func.discountRateType = "variable"
               THEN calculateNPVVariable(modifiedCashFlows, func.variableDiscountRates)
               ELSE calculateNPV(modifiedCashFlows, func.discountRate)
    IN  [value  |-> Sub(npv, func.targetNPV),
         arrays |-> [cashFlows |-> modifiedCashFlows,
                     modifiedCashFlows |-> modifiedCashFlows]]

\* the residual of solveDCFCashFlow: value returned and arrays left behind.
\* Both callers pass an array of rates, so `&& variableDiscountRates` holds.
DCFResidual(func, arrays, x) ==
    LET modifiedCashFlows == [arrays.cashFlows EXCEPT ![func.solverPeriod + 1] = x]
        npv == IF func.discountRateType = "variable"
               THEN calculateNPVVariable(modifiedCashFlows, func.variableDiscountRates)
               ELSE calculateNPV(modifiedCashFlows, func.discountRate)
    IN  [value  |-> Sub(npv, func.targetNPV),
         arrays |-> [arrays EXCEPT !.modifiedCashFlows = modifiedCashFlows]]

\* func(x), with the arrays as the evaluation leaves them
Residual(func, arrays, x) ==
    CASE func.builtBy = "caller" ->
           [value  |-> Add(func.coeffs[1],
                           Add(Mul(func.coeffs[2], x), Mul(func.coeffs[3], Mul(x, x)))),
            arrays |-> arrays]
      [] func.builtBy = "solveCMPDRate" ->
           [value  |-> Sub(calculateFV(func.pv, x, func.periods, func.pmt,
                                       func.paymentTiming), func.fv),
            arrays |-> arrays]
      [] func.builtBy = "solveDCFCashFlow" -> DCFResidual(func, arrays, x)

\* The state of a call on entry.  tol is the tolerance 1e-tol; root is what the
\* one who built the call knows to be a zero of func (Null if nothing is known).
bisectionMethod(func, a, b, tol, maxIter, arrays) ==
    [pc |-> "enter", func |-> func, a |-> a, b |-> b, fa |-> Null, fb |-> Null,
     tolerance |-> tol, maxIterations |-> maxIter, i |-> 0, evals |-> <<>>,
     arrays |-> arrays, result |-> Null,
     call |-> [a |-> a, b |-> b, arrays |-> arrays], root |-> Null]

\* solveCMPDRate searching the non-negative rates only
solveCMPDRate_PositiveRatesOnly(pv, fv, periods, pmt, paymentTiming) ==
    bisectionMethod([builtBy |-> "solveCMPDRate", pv |-> pv, fv |-> fv,
                     periods |-> periods, pmt |-> pmt, paymentTiming |-> paymentTiming],
                    I(0), I(1000), 6, 200, NoArrays)

solveCMPDRate(pv, fv, periods, pmt, paymentTiming) ==
    bisectionMethod([builtBy |-> "solveCMPDRate", pv |-> pv, fv |-> fv,
                     periods |-> periods, pmt |-> pmt, paymentTiming |-> paymentTiming],
                    I(-99), I(1000), 6, 200, NoArrays)

\* 1e10
E10 == Mul(I(100000), I(100000))

solveDCFCashFlow(cashFlows, solverPeriod, targetNPV, discountRate, discountRateType, variableDiscountRates) ==
    bisectionMethod([builtBy |-> "solveDCFCashFlow", solverPeriod |-> solverPeriod,
                     targetNPV |-> targetNPV, discountRate |-> discountRate,
                     discountRateType |-> discountRateType,
                     variableDiscountRates |-> variableDiscountRates],
                    Neg(E10), E10, 6, 200,
                    [cashFlows |-> cashFlows, modifiedCashFlows |-> <<>>])

\* the call returns value
BisectionReturn(value, arrays, evals) ==
    [bis EXCEPT !.pc = "done", !.result = value, !.arrays = arrays, !.evals = evals]

\* the test of the bracket taking a zero product for a missing root as well
BisectionBracket_NullOnZeroProduct(ra, rb) ==
    IF ~Lt(Mul(ra.value, rb.value), I(0))
    THEN [BisectionReturn(Null, rb.arrays, <<bis.a, bis.b>>)
              EXCEPT !.fa = ra.value, !.fb = rb.value]
    ELSE [bis EXCEPT !.pc = "loop", !.fa = ra.value, !.fb = rb.value,
                     !.arrays = rb.arrays, !.evals = <<bis.a, bis.b>>]

\* The test of the bracket, given ra and rb, what func(a) and func(b) returned
\* and left behind
BisectionBracket(ra, rb) ==
    IF Lt(I(0), Mul(ra.value, rb.value))
    THEN [BisectionReturn(Null, rb.arrays, <<bis.a, bis.b>>)
              EXCEPT !.fa = ra.value, !.fb = rb.value]
    ELSE [bis EXCEPT !.pc = "loop", !.fa = ra.value, !.fb = rb.value,
                     !.arrays = rb.arrays, !.evals = <<bis.a, bis.b>>]

\* fb = func(b), evaluated after func(a)
BisectionEvalB(ra) == BisectionBracket(ra, Residual(bis.func, ra.arrays, bis.b))

\* fa = func(a), fb = func(b) and the test of the bracket
BisectionEnter ==
    /\ bis.pc = "enter"
    /\ bis' = BisectionEvalB(Residual(bis.func, bis.arrays, bis.a))
    /\ UNCHANGED <<cmpd, amrt, irr, cash>>

\* The body of the for loop, given the midpoint c and rc, what func(c) returned
\* and left behind
\* the loop body keeping the half of the bracket without the sign change
BisectionBody_KeepsWrongHalf(c, rc) ==
    IF BelowTol(rc.value, bis.tolerance) \/ BelowTol(Sub(bis.b, bis.a), bis.tolerance)
    THEN BisectionReturn(c, rc.arrays, Append(bis.evals, c))
    ELSE IF Lt(Mul(bis.fa, rc.value), I(0))
    THEN [bis EXCEPT !.a = c, !.fa = rc.value, !.i = @ + 1, !.arrays = rc.arrays,
                     !.evals = Append(@, c)]
    ELSE [bis EXCEPT !.b = c, !.fb = rc.value, !.i = @ + 1, !.arrays = rc.arrays,
                     !.evals = Append(@, c)]

BisectionBody(c, rc) ==
    IF BelowTol(rc.value, bis.tolerance)
       \/ BelowTol(Sub(bis.b, bis.a), bis.tolerance)
    THEN BisectionReturn(c, rc.arrays, Append(bis.evals, c))
    ELSE IF Lt(Mul(bis.fa, rc.value), I(0))
    THEN [bis EXCEPT !.b = c, !.fb = rc.value, !.i = @ + 1,
                     !.arrays = rc.arrays, !.evals = Append(@, c)]
    ELSE [bis EXCEPT !.a = c, !.fa = rc.value, !.i = @ + 1,
                     !.arrays = rc.arrays, !.evals = Append(@, c)]

\* fc = func(c)
BisectionEvalC(c) == BisectionBody(c, Residual(bis.func, bis.arrays, c))

\* One pass of the for loop, or the return after it
\* the loop running while i <= maxIterations
BisectionStep_OneIterationMore ==
    /\ bis.pc = "loop"
    /\ bis' = IF bis.i <= bis.maxIterations
              THEN BisectionEvalC(Div(Add(bis.a, bis.b), I(2)))
              ELSE BisectionReturn(Div(Add(bis.a, bis.b), I(2)), bis.arrays, bis.evals)
    /\ UNCHANGED <<cmpd, amrt, irr, cash>>

BisectionStep ==
    /\ bis.pc = "loop"
    /\ bis' = IF bis.i < bis.maxIterations
              THEN BisectionEvalC(Div(Add(bis.a, bis.b), I(2)))
              ELSE BisectionReturn(Div(Add(bis.a, bis.b), I(2)), bis.arrays, bis.evals)
    /\ UNCHANGED <<cmpd, amrt, irr, cash>>

NextBisection == BisectionEnter \/ BisectionStep

\* Calls of bisectionMethod with a function of the caller's own
MaxIter == 3

Polys == {<<I(5), I(1), I(0)>>, <<I(-4), I(0), I(1)>>, <<Q(-1, 3), I(1), I(0)>>,
          <<I(2), I(-1), I(0)>>, <<I(0), I(0), I(0)>>, <<I(1), I(0), I(1)>>}

Brackets == {<<I(0), I(1)>>, <<I(0), I(3)>>, <<I(-8), I(8)>>, <<I(3), I(0)>>,
             <<I(2), I(2)>>, <<I(2), I(8)>>}

InitBisection ==
    /\ \E coeffs \in Polys, ab \in Brackets, tol \in {1, 6},
          maxIter \in (0..MaxIter) \cup {100} :
          bis = bisectionMethod([builtBy |-> "caller", coeffs |-> coeffs],
                                ab[1], ab[2], tol, maxIter, NoArrays)
    /\ cmpd = CmpdIdle
    /\ amrt = AmrtIdle
    /\ irr = IrrIdle
    /\ cash = CashIdle

SpecBisection == InitBisection /\ [][NextBisection]_vars

\* Calls of solveCMPDRate for a target that calculateFV gives at a known rate,
\* and for targets no rate of the bracket reaches
RateRoots == {I(-99), I(-50), I(5), Q(901, 2)}

InitCMPDRate ==
    /\ \E pv \in {I(100)}, periods \in 1..MaxPeriods, paymentTiming \in Timings :
          \/ \E r0 \in RateRoots :
                bis = [solveCMPDRate(pv, calculateFV(pv, r0, periods, I(0), paymentTiming),
                                     periods, I(0), paymentTiming)
                          EXCEPT !.root = r0]
          \/ \E fv \in {I(0), Mul(pv, Pow(I(12), periods))}, pmt \in {I(0), I(-10)} :
                bis = solveCMPDRate(pv, fv, periods, pmt, paymentTiming)
    /\ cmpd = CmpdIdle
    /\ amrt = AmrtIdle
    /\ irr = IrrIdle
    /\ cash = CashIdle

SpecCMPDRate == InitCMPDRate /\ [][NextBisection]_vars

\* Calls of solveDCFCashFlow as the cash-flow calculator makes them: the
\* solver period is a position of the series, a variable-rate call has one
\* rate per period after the first
CashFlowSeries == {<<I(-100), I(110)>>, <<I(-100), I(50), I(60)>>, <<I(0), I(7), I(-3)>>}

InitDCF ==
    /\ \E cashFlows \in CashFlowSeries, targetNPV \in {I(0), I(10), Mul(I(20), E10)} :
       \E solverPeriod \in 0..(Len(cashFlows) - 1) :
          \/ \E discountRate \in {I(0), I(10), I(100)} :
                bis = solveDCFCashFlow(cashFlows, solverPeriod, targetNPV,
                                       discountRate, "fixed", <<>>)
          \/ bis = solveDCFCashFlow(cashFlows, solverPeriod, targetNPV, I(0),
                                    "variable",
                                    SubSeq(<<I(10), I(25)>>, 1, Len(cashFlows) - 1))
    /\ cmpd = CmpdIdle
    /\ amrt = AmrtIdle
    /\ irr = IrrIdle
    /\ cash = CashIdle

SpecDCF == InitDCF /\ [][NextBisection]_vars

\* Applications of calculateNPV and calculatePI to a non-empty cash-flow series
\* and a rate
CashRates == {I(-200), I(-100), I(0), I(10), I(100)}

CashInitials == {I(-100), I(-1), I(0), I(1), I(100)}

CashFutures == {<<>>, <<I(0)>>, <<I(110)>>, <<I(-30)>>, <<I(50), I(60)>>,
                <<I(50), I(-60)>>, <<I(0), I(121)>>}

InitCASH ==
    /\ \E initial \in CashInitials, future \in CashFutures, discountRate \in CashRates :
          cash = [pc |-> "input", cashFlows |-> <<initial>> \o future,
                  discountRate |-> discountRate, npv |-> Null, pi |-> Null]
    /\ cmpd = CmpdIdle
    /\ amrt = AmrtIdle
    /\ irr = IrrIdle
    /\ bis = BisIdle

ApplyNPVAndPI ==
    /\ cash.pc = "input"
    /\ cash' = [cash EXCEPT !.pc = "applied",
                            !.npv = calculateNPV(cash.cashFlows, cash.discountRate),
                            !.pi = calculatePI(cash.cashFlows, cash.discountRate)]
    /\ UNCHANGED <<cmpd, amrt, irr, bis>>

NextCASH == ApplyNPVAndPI

SpecCASH == InitCASH /\ [][NextCASH]_vars

\* The three calculators fed with one validated request each (rate >= 0,
\* periods >= 1, principal > 0, a non-zero initial cash flow), their handlers
\* interleaved in any order
ValidRates == {I(0), I(5), I(100)}

ValidPrincipals == {I(100), I(1200)}

InitValidated ==
    \E principal \in ValidPrincipals, rate \in ValidRates, periods \in 1..MaxPeriods,
       pmt \in {I(0), I(25)}, paymentTiming \in Timings,
       scheduleType \in {"shpitzer", "regular"} :
       /\ cmpd = [regs |-> [pv |-> principal, fv |-> I(250), rate |-> rate,
                            periods |-> periods, pmt |-> pmt,
                            paymentTiming |-> paymentTiming],
                  history |-> <<>>]
       /\ amrt = [pc |-> "request",
                  loan |-> Loan(principal, rate, periods, scheduleType, paymentTiming, 0),
                  schedule |-> <<>>]
       /\ cash = [pc |-> "input",
                  cashFlows |-> <<Neg(principal)>> \o [t \in 1..periods |-> I(60)],
                  discountRate |-> rate, npv |-> Null, pi |-> Null]
       /\ irr = IrrIdle
       /\ bis = BisIdle

NextValidated == NextCMPD \/ NextAMRT \/ NextCASH

SpecValidated == InitValidated /\ [][NextValidated]_vars

\* ------------------------------------------------------------------------
\* Claims about the TVM engine
\* ------------------------------------------------------------------------

\* C1: calculatePV undoes calculateFV: for rate >= 0 and periods > 0, any pv,
\* any pmt and either timing, solving for FV and then for PV from that FV gives
\* back the pv the FV was computed from (within 1e-6).
C1_PVInvertsFV ==
    \A i \in 1..Len(cmpd.history) :
        ( /\ Consecutive(i, "fv", "pv")
          /\ Le(I(0), cmpd.history[i].inputs.rate)
          /\ cmpd.history[i].inputs.periods > 0 )
        => BelowTol(Sub(RegsAfter(i + 1).pv, cmpd.history[i].inputs.pv), 6)

\* a round trip with a non-zero rate, non-zero payments and annuity-due timing
C1_Witness ==
    /\ Len(cmpd.history) = 2
    /\ Consecutive(1, "fv", "pv")
    /\ cmpd.regs.rate = I(50)
    /\ cmpd.regs.periods = MaxPeriods
    /\ cmpd.regs.pmt = I(25)
    /\ cmpd.regs.paymentTiming = "begin"
    /\ cmpd.regs.pv = I(250)
    /\ cmpd.regs.fv # I(250)

\* C2: the payment calculatePMT returns, fed back into calculateFV with the
\* same pv, rate, periods and timing, reproduces the target fv
\* (rate > -100, periods > 0).
C2_FVOfPMTIsTarget ==
    \A i \in 1..Len(cmpd.history) :
        ( /\ Consecutive(i, "pmt", "fv")
          /\ Lt(I(-100), cmpd.history[i].inputs.rate)
          /\ cmpd.history[i].inputs.periods > 0 )
        => BelowTol(Sub(RegsAfter(i + 1).fv, cmpd.history[i].inputs.fv), 6)

\* ------------------------------------------------------------------------
\* Claims about the amortization engine
\* ------------------------------------------------------------------------

LastRow == amrt.schedule[Len(amrt.schedule)]

\* C3: for every policy and both timings, on a validated request, the
\* principalPayment of all rows sums to the original principal and the last
\* row's remainingBalance is 0.
C3_PrincipalRepaid ==
    (amrt.pc = "generated" /\ Validated)
    => /\ BelowTol(Sub(SumField(amrt.schedule, "principalPayment"), amrt.loan.principal), 6)
       /\ LastRow.remainingBalance = I(0)

\* C4: regular policy, validated request, either timing: totalPayment is the
\* same in every row and equals the level payment pmt.
C4_RegularLevelPayment ==
    (Generated("regular") /\ Validated)
    => \A k \in 1..Len(amrt.schedule) :
          BelowTol(Sub(amrt.schedule[k].totalPayment,
                       RegularPmt(amrt.loan.principal, Div(amrt.loan.rate, I(100)),
                                  amrt.loan.periods, amrt.loan.paymentTiming)), 6)

\* C5 as stated: balloon policy, either timing: every row, the final one
\* included, has interestPayment = principal * rate / 100.
C5_BalloonInterestEveryRow ==
    Generated("balloon")
    => \A k \in 1..Len(amrt.schedule) :
          amrt.schedule[k].interestPayment
            = Div(Mul(amrt.loan.principal, amrt.loan.rate), I(100))

\* C5 amended: balloon policy: every row before the final one has
\* interestPayment = principal * rate / 100 for either timing; the final row
\* has that interest for timing 'end' and interestPayment = 0 for timing 'begin'.
C5_BalloonInterest ==
    Generated("balloon")
    => \A k \in 1..Len(amrt.schedule) :
          amrt.schedule[k].interestPayment
            = IF k = amrt.loan.periods /\ amrt.loan.paymentTiming = "begin"
              THEN I(0)
              ELSE Div(Mul(amrt.loan.principal, amrt.loan.rate), I(100))

\* a balloon schedule of several rows, timing 'begin', with a non-zero interest
C5_Witness ==
    /\ Generated("balloon")
    /\ amrt.loan.paymentTiming = "begin"
    /\ amrt.loan.periods = MaxPeriods
    /\ Len(amrt.schedule) = MaxPeriods
    /\ amrt.schedule[1].interestPayment = I(50)
    /\ LastRow.interestPayment = I(0)

\* C6: shpitzer policy, validated request, either timing: every row's
\* principalPayment is principal / periods, and the principalPayment of all
\* rows sums to principal (within 1e-6).
C6_ShpitzerEqualPrincipal ==
    (Generated("shpitzer") /\ Validated)
    => /\ \A k \in 1..Len(amrt.schedule) :
             amrt.schedule[k].principalPayment
               = Div(amrt.loan.principal, I(amrt.loan.periods))
       /\ BelowTol(Sub(SumField(amrt.schedule, "principalPayment"), amrt.loan.principal), 6)

\* a shpitzer schedule of several rows whose slice principal / periods is not an integer
C6_Witness ==
    /\ Generated("shpitzer")
    /\ Validated
    /\ amrt.loan.principal = I(100)
    /\ amrt.loan.periods = 3
    /\ Len(amrt.schedule) = 3
    /\ amrt.loan.paymentTiming = "begin"
    /\ amrt.schedule[2].principalPayment = Q(100, 3)

\* C7: balloon policy, periods >= 1, either timing: every row before the final
\* one has remainingBalance = principal and principalPayment = 0; the final
\* row has remainingBalance = 0 and principalPayment = principal.
C7_BalloonStructure ==
    (Generated("balloon") /\ amrt.loan.periods >= 1)
    => /\ Len(amrt.schedule) = amrt.loan.periods
       /\ \A k \in 1..Len(amrt.schedule) :
             IF amrt.schedule[k].period < amrt.loan.periods
             THEN /\ amrt.schedule[k].remainingBalance = amrt.loan.principal
                  /\ amrt.schedule[k].principalPayment = I(0)
             ELSE /\ k = amrt.loan.periods
                  /\ amrt.schedule[k].remainingBalance = I(0)
                  /\ amrt.schedule[k].principalPayment = amrt.loan.principal

\* a balloon schedule with interest-only rows and a final row
C7_Witness ==
    /\ Generated("balloon")
    /\ amrt.loan.periods = MaxPeriods
    /\ amrt.loan.principal = I(1200)
    /\ amrt.schedule[1].principalPayment = I(0)
    /\ amrt.schedule[1].remainingBalance = I(1200)
    /\ LastRow.principalPayment = I(1200)

\* the documented scenario: shpitzer, principal 1200, rate 12, 12 periods, timing 'end'
Scenario1200 ==
    /\ Generated("shpitzer")
    /\ amrt.loan.principal = I(1200)
    /\ amrt.loan.rate = I(12)
    /\ amrt.loan.periods = 12
    /\ amrt.loan.paymentTiming = "end"

\* C8 as stated: in the scenario, row 1 is principalPayment 100,
\* interestPayment 12, totalPayment 112, remainingBalance 1100.
C8_ScenarioRowAsStated ==
    Scenario1200 => amrt.schedule[1] = AMRTRow(1, I(100), I(12), I(112), I(1100))

\* C8 amended: in the scenario, row 1 is principalPayment 100,
\* interestPayment 144 (1200 * 12 / 100), totalPayment 244, remainingBalance 1100.
C8_ScenarioRow ==
    Scenario1200 => amrt.schedule[1] = AMRTRow(1, I(100), I(144), I(244), I(1100))

\* the scenario's schedule has been generated, all 12 rows
C8_Witness == Scenario1200 /\ Len(amrt.schedule) = 12 /\ LastRow.period = 12

\* ------------------------------------------------------------------------
\* Claims about calculateIRR
\* ------------------------------------------------------------------------

\* C9: whenever calculateIRR returns a non-null percentage r, calculateNPV of
\* the same cash flows at r is within 1e-4 of 0, and the iterate the value was
\* returned at has an NPV magnitude below the 1e-6 tolerance.
C9_IRRZeroesNPV ==
    (irr.pc = "done" /\ irr.result # Null)
    => /\ BelowTol(calculateNPV(irr.cashFlows, irr.result), 4)
       /\ BelowTol(IRRNpv(irr.cashFlows, irr.rate, Len(irr.cashFlows)), tolerance)

\* a rate returned after several Newton steps from the default guess, where the
\* NPV is below the tolerance without being 0
C9_Witness ==
    /\ irr.pc = "done"
    /\ irr.cashFlows = <<I(-1), I(1)>>
    /\ irr.guess = DefaultGuess
    /\ irr.i = 3
    /\ irr.result = Q(-1, 1000000)
    /\ calculateNPV(irr.cashFlows, irr.result) # I(0)

\* the iterate of the current state is one of the three failure cases
IRRFailure ==
    \/ irr.i >= maxIterations
    \/ LET npv == IRRNpv(irr.cashFlows, irr.rate, Len(irr.cashFlows))
           dnpv == IRRDnpv(irr.cashFlows, irr.rate, Len(irr.cashFlows))
       IN  /\ ~BelowTol(npv, 6)
           /\ \/ BelowTol(dnpv, 10)
              \/ Lt(Sub(irr.rate, Div(npv, dnpv)), I(-1))

\* C10: a step of calculateIRR taken in one of the three failure cases (the
\* derivative magnitude at an unconverged iterate is below 1e-10, the next
\* Newton iterate is below -1, or 100 iterations have passed) ends the call
\* with Null; a step that ends the call in any other case returns a number.
C10_IRRFailuresAreNull ==
    [][ irr.pc = "loop"
        => /\ IRRFailure => (irr'.pc = "done" /\ irr'.result = Null)
           /\ (irr'.pc = "done" /\ ~IRRFailure)
                => (irr'.result # Null /\ Len(irr'.result) = 3) ]_vars

\* a call ended with Null after 100 iterations of a Newton iteration that cycles
\* between two iterates
C10_Witness ==
    /\ irr.pc = "done"
    /\ irr.result = Null
    /\ irr.i = maxIterations
    /\ irr.cashFlows = <<I(19), I(-44), I(21)>>
    /\ irr.rate = irr.guess

\* ------------------------------------------------------------------------
\* Claims about the solver (lib/solver) and the profitability index
\* ------------------------------------------------------------------------

\* func at the endpoints the call was made with
EndpointA == Residual(bis.func, bis.call.arrays, bis.call.a).value

EndpointB == Residual(bis.func, bis.call.arrays, bis.call.b).value

\* C11: a call of bisectionMethod returns Null if and only if f(a) * f(b) > 0
\* at the endpoints it was called with, and then f has been evaluated at a and
\* at b only; every other call, whatever maxIterations >= 0, returns a number,
\* the midpoint of the last bracket.
C11_NullIffSameSign ==
    bis.pc = "done" =>
        /\ (bis.result = Null) <=> Lt(I(0), Mul(EndpointA, EndpointB))
        /\ bis.result = Null => bis.evals = <<bis.call.a, bis.call.b>>
        /\ bis.result # Null =>
              /\ Len(bis.result) = 3
              /\ bis.result = Div(Add(bis.a, bis.b), I(2))

\* f(x) = x + 5 over [0, 1] has returned Null
C11_Witness ==
    /\ bis.pc = "done"
    /\ bis.func = [builtBy |-> "caller", coeffs |-> <<I(5), I(1), I(0)>>]
    /\ bis.call.a = I(0)
    /\ bis.call.b = I(1)
    /\ bis.result = Null
    /\ bis.evals = <<I(0), I(1)>>

\* C12: solveCMPDRate called with pv > 0, pmt = 0, periods >= 1 and
\* fv = calculateFV(pv, r0, periods, 0, timing) for a rate r0 strictly between
\* -99 and 1000 returns a rate in [-99, 1000] whose future value is within 1e-6
\* of fv or that is within 1e-6 of r0; and a call whose residual has the same
\* strict sign at -99 and at 1000 returns Null.
C12_RateInvertsFV ==
    (bis.pc = "done" /\ bis.func.builtBy = "solveCMPDRate") =>
        /\ ( /\ bis.root # Null
             /\ Lt(I(-99), bis.root) /\ Lt(bis.root, I(1000))
             /\ Lt(I(0), bis.func.pv) /\ bis.func.pmt = I(0) /\ bis.func.periods >= 1
             /\ bis.func.fv = calculateFV(bis.func.pv, bis.root, bis.func.periods,
                                          I(0), bis.func.paymentTiming) )
           => /\ bis.result # Null
              /\ Le(I(-99), bis.result) /\ Le(bis.result, I(1000))
              /\ \/ BelowTol(Sub(calculateFV(bis.func.pv, bis.result, bis.func.periods,
                                             I(0), bis.func.paymentTiming),
                                 bis.func.fv), 6)
                 \/ BelowTol(Sub(bis.result, bis.root), 6)
        /\ ( \/ Lt(I(0), EndpointA) /\ Lt(I(0), EndpointB)
             \/ Lt(EndpointA, I(0)) /\ Lt(EndpointB, I(0)) )
           => bis.result = Null

\* the rate 5 found again from the future value it gives over three periods
C12_Witness ==
    /\ bis.pc = "done"
    /\ bis.func.builtBy = "solveCMPDRate"
    /\ bis.root = I(5)
    /\ bis.func.periods = 3
    /\ bis.result # Null
    /\ bis.result # bis.root
    /\ BelowTol(Sub(bis.result, bis.root), 6)

\* values the caller's array may hold at solverPeriod
OriginalValues == {I(-7), I(1000)}

\* C13: solveDCFCashFlow with fixed discounting, discountRate > -100 and an
\* exact solution xStar strictly between -1e10 and 1e10 returns an x for which
\* the NPV of cashFlows with x at solverPeriod is within 1e-6 of targetNPV, or
\* that is within 1e-6 of xStar; and the residual at every point the call
\* evaluated is the same whatever value cashFlows held at solverPeriod.
C13_DCFSolvesCashFlow ==
    (bis.pc = "done" /\ bis.func.builtBy = "solveDCFCashFlow") =>
        LET cashFlows == bis.call.arrays.cashFlows
            p == bis.func.solverPeriod + 1
            base == Add(I(1), Div(bis.func.discountRate, I(100)))
            xStar == Mul(Sub(bis.func.targetNPV,
                             calculateNPV([cashFlows EXCEPT ![p] = I(0)],
                                          bis.func.discountRate)),
                         Pow(base, p - 1))
        IN  /\ ( /\ bis.func.discountRateType = "fixed"
                 /\ Lt(I(-100), bis.func.discountRate)
                 /\ Lt(Neg(E10), xStar) /\ Lt(xStar, E10) )
               => /\ bis.result # Null
                  /\ \/ BelowTol(Sub(calculateNPV([cashFlows EXCEPT ![p] = bis.result],
                                                  bis.func.discountRate),
                                     bis.func.targetNPV), 6)
                     \/ BelowTol(Sub(bis.result, xStar), 6)
            /\ \A v \in OriginalValues : \A k \in 1..Len(bis.evals) :
                  Residual(bis.func, [bis.call.arrays EXCEPT !.cashFlows[p] = v],
                           bis.evals[k]).value
                  = Residual(bis.func, bis.call.arrays, bis.evals[k]).value

\* the second cash flow of -100, 50, 60 solved for an NPV of 10 at 10 percent
C13_Witness ==
    /\ bis.pc = "done"
    /\ bis.func.builtBy = "solveDCFCashFlow"
    /\ bis.func.discountRateType = "fixed"
    /\ bis.func.discountRate = I(10)
    /\ bis.func.targetNPV = I(10)
    /\ bis.func.solverPeriod = 1
    /\ bis.call.arrays.cashFlows = <<I(-100), I(50), I(60)>>
    /\ bis.result # Null
    /\ bis.result # I(50)

\* C14: during and after a call of solveDCFCashFlow, whether it returns a
\* number or Null, the caller's cashFlows array is what it was before the call.
C14_CallerArrayUntouched ==
    (bis.pc # "idle" /\ bis.func.builtBy = "solveDCFCashFlow") =>
        bis.arrays.cashFlows = bis.call.arrays.cashFlows

\* a call that returned after many evaluations, each on a copy that now
\* differs from the caller's array
C14_Witness ==
    /\ bis.pc = "done"
    /\ bis.func.builtBy = "solveDCFCashFlow"
    /\ Len(bis.evals) > 10
    /\ bis.arrays.modifiedCashFlows # bis.arrays.cashFlows
    /\ bis.arrays.cashFlows = bis.call.arrays.cashFlows

\* C15: calculatePI returns Null exactly when cashFlows[0] is 0; any other
\* result pi satisfies pi * |cashFlows[0]| + cashFlows[0] = calculateNPV.
C15_PIOfSeries ==
    cash.pc = "applied" =>
        /\ (cash.pi = Null) <=> (cash.cashFlows[1] = I(0))
        /\ cash.pi # Null =>
              Add(Mul(cash.pi, Abs(cash.cashFlows[1])), cash.cashFlows[1]) = cash.npv

\* the index of an outlay of 100 followed by 50 and 60, at 10 percent
C15_Witness ==
    /\ cash.pc = "applied"
    /\ cash.cashFlows = <<I(-100), I(50), I(60)>>
    /\ cash.discountRate = I(10)
    /\ cash.pi # Null
    /\ Lt(I(0), cash.pi)
    /\ Lt(cash.pi, I(1))

\* ------------------------------------------------------------------------
\* Claims about the rows of every schedule
\* ------------------------------------------------------------------------

\* the balance before row k: the principal, or the balance of the row before
BalanceBefore(k) ==
    IF k = 1 THEN amrt.loan.principal ELSE amrt.schedule[k - 1].remainingBalance

\* C16: every row of every generated schedule, whatever principal, rate and
\* periods were passed, has remainingBalance >= 0.
C16_BalanceNeverNegative ==
    amrt.pc = "generated" =>
        \A k \in 1..Len(amrt.schedule) : Le(I(0), amrt.schedule[k].remainingBalance)

\* C17: for a validated request of any policy and timing, remainingBalance
\* never increases from one row to the next, never exceeds the principal, and
\* equals the balance before the row only in rows whose principalPayment is 0.
C17_BalanceNonIncreasing ==
    (amrt.pc = "generated" /\ Validated) =>
        \A k \in 1..Len(amrt.schedule) :
            /\ Le(amrt.schedule[k].remainingBalance, BalanceBefore(k))
            /\ Le(amrt.schedule[k].remainingBalance, amrt.loan.principal)
            /\ amrt.schedule[k].remainingBalance = BalanceBefore(k)
                  => amrt.schedule[k].principalPayment = I(0)

\* a validated grace schedule whose balance stays at the principal and then
\* falls to 0
C17_Witness ==
    /\ Generated("grace")
    /\ Validated
    /\ amrt.loan.periods = 3
    /\ Lt(I(0), amrt.loan.rate)
    /\ amrt.schedule[2].remainingBalance = amrt.loan.principal
    /\ amrt.schedule[3].remainingBalance = I(0)

\* C18: in every row of every generated schedule, totalPayment is
\* principalPayment + interestPayment.
C18_TotalIsPrincipalPlusInterest ==
    amrt.pc = "generated" =>
        \A k \in 1..Len(amrt.schedule) :
            amrt.schedule[k].totalPayment
            = Add(amrt.schedule[k].principalPayment, amrt.schedule[k].interestPayment)

\* a regular schedule paid at the beginning of the period, with a row in which
\* both parts of the payment are positive
C18_Witness ==
    /\ Generated("regular")
    /\ amrt.loan.paymentTiming = "begin"
    /\ amrt.loan.periods = 3
    /\ Lt(I(0), amrt.schedule[1].principalPayment)
    /\ Lt(I(0), amrt.schedule[1].interestPayment)
    /\ Lt(amrt.schedule[1].principalPayment, amrt.schedule[1].totalPayment)

\* C19: a generated schedule has exactly periods rows (none for periods = 0),
\* and the row at position k has period = k.
C19_PeriodsNumberedFromOne ==
    amrt.pc = "generated" =>
        /\ Len(amrt.schedule) = amrt.loan.periods
        /\ \A k \in 1..Len(amrt.schedule) : amrt.schedule[k].period = k

\* a regular schedule of three rows
C19_Witness ==
    /\ Generated("regular")
    /\ amrt.loan.periods = 3
    /\ Len(amrt.schedule) = 3
    /\ amrt.schedule[3].period = 3

\* C20: the grace schedule is the same for every value of gracePeriods; its
\* rows before the last are interest-only with the balance at the principal,
\* and its last row pays the principal and one period of interest and leaves 0.
C20_GracePeriodsIgnored ==
    Generated("grace") =>
        LET loan == amrt.loan
            interest == Div(Mul(loan.principal, loan.rate), I(100))
        IN  /\ \A gracePeriods \in 0..(loan.periods + 1) :
                  generateSchedule(loan.principal, loan.rate, loan.periods, "grace",
                                   loan.paymentTiming, gracePeriods) = amrt.schedule
            /\ \A k \in 1..Len(amrt.schedule) :
                  /\ amrt.schedule[k].interestPayment = interest
                  /\ k < loan.periods =>
                        /\ amrt.schedule[k].principalPayment = I(0)
                        /\ amrt.schedule[k].remainingBalance = loan.principal
                  /\ k = loan.periods =>
                        /\ amrt.schedule[k].principalPayment = loan.principal
                        /\ amrt.schedule[k].totalPayment = Add(loan.principal, interest)
                        /\ amrt.schedule[k].remainingBalance = I(0)

\* a grace schedule of three periods asked for with one grace period
C20_Witness ==
    /\ Generated("grace")
    /\ amrt.loan.periods = 3
    /\ amrt.loan.gracePeriods = 1
    /\ amrt.loan.principal = I(100)
    /\ amrt.loan.rate = I(50)
    /\ amrt.schedule[2].principalPayment = I(0)
    /\ amrt.schedule[2].interestPayment = I(50)

\* ------------------------------------------------------------------------
\* Claims about the summary, the future value and the solver's loop
\* ------------------------------------------------------------------------

Summarised == amrt.pc = "summarised"

\* the rows of the summarised schedule whose period lies in [fromPeriod, toPeriod]
RowsInRange ==
    SelectSeq(amrt.schedule,
              LAMBDA row : amrt.fromPeriod <= row.period /\ row.period <= amrt.toPeriod)

\* C21: calculateSummary(schedule, fromPeriod, toPeriod) returns, for each of
\* totalPrincipal, totalInterest and totalPayment, the sum of the matching field
\* over exactly the rows with fromPeriod <= period <= toPeriod, both ends
\* included; a range with fromPeriod > toPeriod gives all zeros, and the schedule
\* is still the one that was generated.
C21_SummaryOverInclusiveRange ==
    Summarised =>
        /\ amrt.summary.totalPrincipal = SumField(RowsInRange, "principalPayment")
        /\ amrt.summary.totalInterest = SumField(RowsInRange, "interestPayment")
        /\ amrt.summary.totalPayment = SumField(RowsInRange, "totalPayment")
        /\ amrt.fromPeriod > amrt.toPeriod =>
              amrt.summary = [totalPrincipal |-> I(0), totalInterest |-> I(0),
                              totalPayment |-> I(0)]
        /\ amrt.schedule = generateSchedule(amrt.loan.principal, amrt.loan.rate,
                                            amrt.loan.periods, amrt.loan.scheduleType,
                                            amrt.loan.paymentTiming, amrt.loan.gracePeriods)

\* periods 2..3 of a three-row schedule are summarised: part of the payments, not all
C21_Witness ==
    /\ Summarised
    /\ Len(amrt.schedule) = 3
    /\ amrt.fromPeriod = 2
    /\ amrt.toPeriod = 3
    /\ amrt.loan.principal = I(100)
    /\ Lt(I(0), amrt.summary.totalPayment)
    /\ Lt(amrt.summary.totalPayment, SumField(amrt.schedule, "totalPayment"))

\* 1 + x + ... + x^(n-1), the annuity factor (x^n - 1) / (x - 1) written as a sum
RECURSIVE GeometricSum(_, _)
GeometricSum(x, n) == IF n = 0 THEN I(0) ELSE Add(GeometricSum(x, n - 1), Pow(x, n - 1))

\* C22: calculateFV returns pv*(1+r)^n + pmt*((1+r)^n - 1)/r * (1+r if timing is
\* 'begin', 1 otherwise) with r = rate/100 when r # 0, and pv + pmt*n, a number
\* obtained without dividing by r, when r = 0 (pv and pmt being numbers);
\* calculateFV(1000, 5, 10, 0, 'end') is 1628.89 to two decimals.
C22_FVClosedForm ==
    \A i \in 1..Len(cmpd.history) :
        ( /\ cmpd.history[i].solveFor = "fv"
          /\ IsFinite(cmpd.history[i].inputs.pv)
          /\ IsFinite(cmpd.history[i].inputs.pmt) ) =>
            LET in == cmpd.history[i].inputs
                r == Div(in.rate, I(100))
                growth == Add(I(1), r)
                due == IF in.paymentTiming = "begin" THEN growth ELSE I(1)
                fv == RegsAfter(i).fv
            IN  /\ r # I(0) =>
                      fv = Add(Mul(in.pv, Pow(growth, in.periods)),
                               Mul(in.pmt, Mul(GeometricSum(growth, in.periods), due)))
                /\ r = I(0) => IsFinite(fv) /\ fv = Add(in.pv, Mul(in.pmt, I(in.periods)))
                /\ in = Scenario1000 =>
                      Le(Q(1628885, 1000), fv) /\ Lt(fv, Q(1628895, 1000))

\* the documented example has been computed
C22_Witness ==
    /\ Len(cmpd.history) >= 1
    /\ cmpd.history[1].solveFor = "fv"
    /\ cmpd.history[1].inputs = Scenario1000
    /\ Lt(I(1628), RegsAfter(1).fv)
    /\ Lt(RegsAfter(1).fv, I(1629))

\* the call bisectionMethod(x => x*x - 4, 0, 3) with the default tolerance and budget
SquareCall ==
    /\ bis.pc # "idle"
    /\ bis.func = [builtBy |-> "caller", coeffs |-> <<I(-4), I(0), I(1)>>]
    /\ bis.call.a = I(0)
    /\ bis.call.b = I(3)
    /\ bis.tolerance = 6
    /\ bis.maxIterations = 100

\* C23: bisectionMethod(x => x*x - 4, 0, 3) with tolerance 1e-6 and 100
\* iterations returns a number c that passed the convergence test
\* (|f(c)| < 1e-6 or bracket width < 1e-6) in an iteration of the loop, before
\* the budget ran out, and c is within 1e-6 of 2.
C23_SquareRootOfFour ==
    (SquareCall /\ bis.pc = "done") =>
        /\ bis.result # Null
        /\ bis.i < bis.maxIterations
        /\ bis.evals[Len(bis.evals)] = bis.result
        /\ \/ BelowTol(Residual(bis.func, bis.arrays, bis.result).value, 6)
           \/ BelowTol(Sub(bis.b, bis.a), 6)
        /\ BelowTol(Sub(bis.result, I(2)), 6)

\* the call has returned after narrowing the bracket at least ten times
C23_Witness ==
    /\ SquareCall
    /\ bis.pc = "done"
    /\ bis.result # Null
    /\ bis.i >= 10
    /\ Lt(I(1), bis.result)

\* f at the current endpoints of the bracket
CurrentA == Residual(bis.func, bis.arrays, bis.a).value

CurrentB == Residual(bis.func, bis.arrays, bis.b).value

\* C24: for every call of bisectionMethod with f(a) * f(b) <= 0 at the start
\* (f(a) = 0 at the initial left endpoint included), after every narrowing step
\* the current endpoints still satisfy f(a) * f(b) <= 0, so the value returned
\* lies in a bracket that contains a sign change of f.
C24_SignChangeKept ==
    (bis.pc \in {"loop", "done"} /\ ~Lt(I(0), Mul(EndpointA, EndpointB)))
        => ~Lt(I(0), Mul(CurrentA, CurrentB))

\* ------------------------------------------------------------------------
\* Claims about the iterates of calculateIRR
\* ------------------------------------------------------------------------

\* C25: a call of calculateIRR started from a guess > -1 never evaluates NPV or
\* its derivative at a rate with 1 + rate <= 0: whenever the loop is about to
\* evaluate them at the current rate, 1 + rate > 0 (an iterate of exactly -1
\* included among those that must have ended the call).
C25_IteratesKeepRateAboveMinusOne ==
    (irr.pc = "loop" /\ irr.i < maxIterations /\ Lt(I(-1), irr.guess))
        => Lt(I(0), Add(I(1), irr.rate))

\* ------------------------------------------------------------------------
\* Claims about the budget of bisectionMethod
\* ------------------------------------------------------------------------

\* the call returned at the end of the loop, its budget spent
BudgetExhausted ==
    /\ bis.pc = "done"
    /\ bis.result # Null
    /\ bis.i = bis.maxIterations

\* C26: bisectionMethod always terminates: every step of a call either returns
\* or completes one more loop iteration, and it runs at most maxIterations
\* iterations and evaluates f at most maxIterations + 2 times; when the bracket
\* is valid and the budget is exhausted without a tolerance test passing, it
\* returns the midpoint (a + b)/2 of the final bracket, a number, and the final
\* bracket width is the initial width divided by 2^maxIterations.
C26_BisectionTerminates ==
    /\ [](bis.pc # "idle" =>
            /\ bis.i <= bis.maxIterations
            /\ Len(bis.evals) <= bis.maxIterations + 2
            /\ BudgetExhausted =>
                  /\ bis.result = Div(Add(bis.a, bis.b), I(2))
                  /\ IsFinite(bis.result)
                  /\ Sub(bis.b, bis.a) = Div(Sub(bis.call.b, bis.call.a),
                                             Pow(I(2), bis.maxIterations)))
    /\ [][bis.pc \in {"enter", "loop"} =>
            \/ bis'.pc = "done"
            \/ bis.pc = "enter" /\ bis'.pc = "loop" /\ bis'.i = 0
            \/ bis.pc = "loop" /\ bis'.pc = "loop" /\ bis'.i = bis.i + 1]_vars

\* a call with a budget of three iterations has spent it on x*x - 4 over [0, 3]
C26_Witness ==
    /\ BudgetExhausted
    /\ bis.maxIterations = 3
    /\ Len(bis.evals) = 5
    /\ bis.func.coeffs = <<I(-4), I(0), I(1)>>
    /\ bis.call.a = I(0)
    /\ bis.call.b = I(3)
    /\ Sub(bis.b, bis.a) = Q(3, 8)

\* ------------------------------------------------------------------------
\* Claims about variable-rate compounding
\* ------------------------------------------------------------------------

\* the growth (1 + r_from) * ... * (1 + r_to) over the periods from..to of the call
RECURSIVE Growth(_, _)
Growth(from, to) ==
    IF from > to THEN I(1)
    ELSE Mul(Growth(from, to - 1), Add(I(1), Div(cmpd.variableRates[to], I(100))))

\* what the payments made in periods 1..j are worth at the end of the last period
RECURSIVE PaymentsWorth(_)
PaymentsWorth(j) ==
    IF j = 0 THEN I(0)
    ELSE Add(PaymentsWorth(j - 1),
             Mul(cmpd.pmt, Growth(IF cmpd.paymentTiming = "begin" THEN j ELSE j + 1,
                                  Len(cmpd.variableRates))))

Reverse(list) == [k \in 1..Len(list) |-> list[Len(list) + 1 - k]]

\* C27: for every pv, pmt, timing, rate > -100 (0 included) and n >= 0,
\* calculateFVVariable(pv, [rate repeated n times], pmt, timing) equals
\* calculateFV(pv, rate, n, pmt, timing); and for any rates the result is the
\* fold of the recurrence in array order: pv grown over all periods plus every
\* payment grown over the periods that follow it (its own included for 'begin').
C27_VariableAgreesWithFixed ==
    cmpd.pc = "solved" =>
        /\ \A rate \in Rates :
              ( /\ Lt(I(-100), rate)
                /\ cmpd.variableRates = [k \in 1..Len(cmpd.variableRates) |-> rate] )
              => cmpd.fv = calculateFV(cmpd.pv, rate, Len(cmpd.variableRates), cmpd.pmt,
                                       cmpd.paymentTiming)
        /\ cmpd.fv = Add(Mul(cmpd.pv, Growth(1, Len(cmpd.variableRates))),
                         PaymentsWorth(Len(cmpd.variableRates)))

\* rates 50 then 100 with a payment give a result that the rates in the other order do not
C27_Witness ==
    /\ cmpd.pc = "solved"
    /\ cmpd.variableRates = <<I(50), I(100)>>
    /\ cmpd.pmt = I(25)
    /\ cmpd.pv = I(250)
    /\ cmpd.paymentTiming = "end"
    /\ cmpd.fv = I(825)
    /\ cmpd.fv # calculateFVVariable(cmpd.pv, Reverse(cmpd.variableRates), cmpd.pmt,
                                     cmpd.paymentTiming)

\* ------------------------------------------------------------------------
\* Claims about the grace schedule and the balloon schedule
\* ------------------------------------------------------------------------

\* C28: generateGraceSchedule ignores paymentTiming: for the same principal,
\* rate and periods the schedule is the same for 'begin' and for 'end', and it
\* is row for row the schedule generateBalloonSchedule(principal, rate,
\* periods, 'end') returns.
C28_GraceIsBalloonAtEnd ==
    Generated("grace") =>
        /\ \A paymentTiming \in Timings :
              amrt.schedule = generateGraceSchedule(amrt.loan.principal, amrt.loan.rate,
                                                    amrt.loan.periods, amrt.loan.gracePeriods,
                                                    paymentTiming)
        /\ Len(amrt.schedule) = Len(generateBalloonSchedule(amrt.loan.principal, amrt.loan.rate,
                                                            amrt.loan.periods, "end"))
        /\ \A k \in 1..Len(amrt.schedule) :
              amrt.schedule[k] = generateBalloonSchedule(amrt.loan.principal, amrt.loan.rate,
                                                         amrt.loan.periods, "end")[k]

\* a grace schedule asked for with timing 'begin' whose last row carries interest
C28_Witness ==
    /\ Generated("grace")
    /\ amrt.loan.paymentTiming = "begin"
    /\ amrt.loan.periods = 2
    /\ amrt.loan.principal = I(100)
    /\ amrt.loan.rate = I(50)
    /\ amrt.schedule[2].interestPayment = I(50)
    /\ amrt.schedule[2].totalPayment = I(150)

\* ------------------------------------------------------------------------
\* Claims about the first iteration of calculateIRR
\* ------------------------------------------------------------------------

\* |NPV| at the initial guess is below the tolerance
ConvergedAtGuess == BelowTol(IRRNpv(irr.cashFlows, irr.guess, Len(irr.cashFlows)), tolerance)

AllZero(cashFlows) == \A t \in 1..Len(cashFlows) : cashFlows[t] = I(0)

\* C29: calculateIRR tests convergence before it tests the derivative: whenever
\* |NPV| at the initial guess is below 1e-6 the call returns 100 * guess in its
\* first iteration, even if the derivative is 0; so for a cash-flow series that
\* is empty or all zeros it returns 10 with the default guess, not "no result".
C29_ConvergenceTestedFirst ==
    (irr.pc # "idle" /\ ConvergedAtGuess) =>
        /\ irr.i = 0
        /\ irr.rate = irr.guess
        /\ irr.pc = "done" =>
              /\ irr.result = Mul(I(100), irr.guess)
              /\ (AllZero(irr.cashFlows) /\ irr.guess = DefaultGuess) => irr.result = I(10)

\* the all-zero series with the default guess: NPV and derivative are 0, 10 was returned
C29_Witness ==
    /\ irr.pc = "done"
    /\ irr.cashFlows = <<I(0), I(0)>>
    /\ irr.guess = DefaultGuess
    /\ BelowTol(IRRDnpv(irr.cashFlows, irr.guess, Len(irr.cashFlows)), 10)
    /\ irr.result = I(10)

\* ------------------------------------------------------------------------
\* Claims about division on validated inputs
\* ------------------------------------------------------------------------

\* every field of every row is a number
ScheduleFinite ==
    \A k \in 1..Len(amrt.schedule) :
        /\ IsFinite(amrt.schedule[k].principalPayment)
        /\ IsFinite(amrt.schedule[k].interestPayment)
        /\ IsFinite(amrt.schedule[k].totalPayment)
        /\ IsFinite(amrt.schedule[k].remainingBalance)

\* what call i of the history returned
Returned(i) == RegsAfter(i)[cmpd.history[i].solveFor]

\* the value the explicit r = 0 branch of the function of call i gives
ZeroRateValue(i) ==
    LET in == cmpd.history[i].inputs
    IN  CASE cmpd.history[i].solveFor = "fv" -> Add(in.pv, Mul(in.pmt, I(in.periods)))
          [] cmpd.history[i].solveFor = "pv" -> Sub(in.fv, Mul(in.pmt, I(in.periods)))
          [] cmpd.history[i].solveFor = "pmt" -> Div(Neg(Sub(in.fv, in.pv)), I(in.periods))

\* C30: on validated inputs (rate >= 0, 0 included, periods >= 1, principal > 0,
\* either timing, cashFlows[0] # 0) none of calculateFV, calculatePV,
\* calculatePMT, calculateNPV, calculatePI, generateShpitzerSchedule and
\* generateRegularSchedule divides by zero: every value they return is a
\* number, and at rate 0 it is the value of the explicit branch (pv + pmt*n,
\* fv - pmt*n, -(fv - pv)/n, principal/periods).
C30_NoDivisionByZero ==
    /\ \A i \in 1..Len(cmpd.history) :
          /\ IsFinite(Returned(i))
          /\ cmpd.history[i].inputs.rate = I(0) => Returned(i) = ZeroRateValue(i)
    /\ amrt.pc = "generated" =>
          /\ ScheduleFinite
          /\ amrt.loan.rate = I(0) =>
                \A k \in 1..Len(amrt.schedule) :
                    /\ amrt.schedule[k].principalPayment
                          = Div(amrt.loan.principal, I(amrt.loan.periods))
                    /\ amrt.schedule[k].interestPayment = I(0)
    /\ cash.pc = "applied" => IsFinite(cash.npv) /\ IsFinite(cash.pi)

\* at rate 0 a payment has been solved for, the regular schedule generated and
\* NPV and PI computed
C30_Witness ==
    /\ Len(cmpd.history) >= 1
    /\ cmpd.history[1].solveFor = "pmt"
    /\ cmpd.history[1].inputs.rate = I(0)
    /\ cmpd.history[1].inputs.periods = 3
    /\ cmpd.history[1].inputs.pv = I(100)
    /\ cmpd.regs.pmt = I(-50)
    /\ amrt.pc = "generated"
    /\ amrt.loan.scheduleType = "regular"
    /\ Len(amrt.schedule) = 3
    /\ cash.pc = "applied"
    /\ cash.npv = I(80)

====
